---- MODULE Spec2Model ----
(***************************************************************************)
(* A model of the request-cache engine of react-query (core): the Retryer, *)
(* the Query state machine, the QueryCache registry, the QueryClient       *)
(* facade and the Mutation state machine.                                  *)
(*                                                                         *)
(* JavaScript runs handlers to completion on one event loop, so one action *)
(* of the model is one synchronous handler (with the promise reactions it  *)
(* triggers); the suspension points are a pending attempt of the unit of   *)
(* work, the retry delay, the pause of a Retryer, and pending timers.      *)
(***************************************************************************)
EXTENDS Integers, Sequences, FiniteSets, TLC

\* ------------------------------------------------------------------ bounds

\* Last instant of the millisecond clock (Date.now() starts at 1).
MaxTime == 2
\* Largest integer retry policy handed to a standalone Retryer.
MaxRetry == 2
\* Query objects ever constructed, distinct query hashes, observers.
MaxQueries == 2
MaxHash == 1
MaxObservers == 1
\* Retryers of one Query object with something pending, `retryer` included.
MaxRetryers == 2
\* Values a fetch function or setQueryData supplies.
MaxData == 2
\* Largest dataUpdateCount and errorUpdateCount of a Query object.
MaxUpdates == 1

\* retryer.ts: `config.retry ?? 3`
DefaultRetry == 3

\* A duration longer than every finite one of the model (JavaScript Infinity).
Infinity == MaxTime + MaxTime + 10

\* query.ts setOptions: `query.options.cacheTime ?? 5 * 60 * 1000`, in clock units.
DefaultCacheTime == 1

\* ---------------------------------------------------------------- values

\* Errors are strings: the failure of the unit of work, or a CancelledError
\* with its revert / silent flags (retryer.ts CancelledError).
NoError == "null"
FnError == "err"
\* What a callback of the application throws.
CallbackError == "thrown"

CancelledError(revert, silent) ==
  IF revert
    THEN (IF silent THEN "cancelled:revert:silent" ELSE "cancelled:revert")
    ELSE (IF silent THEN "cancelled:silent" ELSE "cancelled")

isCancelledError(e) ==
  e \in {"cancelled", "cancelled:revert", "cancelled:silent", "cancelled:revert:silent"}

ErrRevert(e) == e \in {"cancelled:revert", "cancelled:revert:silent"}
ErrSilent(e) == e \in {"cancelled:silent", "cancelled:revert:silent"}

\* Data values; 0 stands for `undefined`.
Undefined == 0

\* ------------------------------------------------------------- variables

VARIABLES
  now,        \* Date.now()
  focused,    \* focusManager: `focused`
  online,     \* onlineManager: `online`
  rt,         \* a standalone Retryer (SpecRetryer)
  rtLog,      \* how often each callback of the standalone Retryer's config ran
  queries,    \* QueryCache: `queries`, the ordered list
  queriesMap, \* QueryCache: `queriesMap`, hash -> Query
  qs,         \* the Query objects that exist
  obsQuery,   \* QueryObserver: `currentQuery` of a subscribed observer
  obsOptions, \* QueryObserver: the options read here, and `refetchIntervalId`
  held,       \* a Query the application keeps a reference to (queryCache.find)
  last,       \* history: the call or reaction that made the last step
  mu,         \* a Mutation (SpecMutation)
  ob,         \* a QueryObserver with its Query and the notifyManager (SpecObserver)
  follow,     \* whether the Queries' settled Retryers are kept while their unit of
              \* work is pending (never changes)
  mutationCache, \* MutationCache: `mutations`, and the promise chains of its
              \* resumePausedMutations() calls (SpecResume)
  tm          \* a Query with two QueryObservers in a browser, and the timers
              \* that are pending (SpecTimers)

vars == <<now, focused, online, rt, rtLog, queries, queriesMap, qs, obsQuery, obsOptions, held, last, mu, ob, follow,
          mutationCache, tm>>

envVars == <<focused, online>>
rtVars == <<rt, rtLog>>
cacheVars == <<queries, queriesMap, qs, obsQuery, obsOptions, held, last>>

\* ---------------------------------------------------------------- Retryer
\* A Retryer is a record. phase says what it is suspended on:
\*   "attempt"  the promise of config.fn() is pending
\*   "sleep"    sleep(delay) is pending
\*   "paused"   the promise of pause() is pending (continueFn is set)
\*   "stopped"  nothing is pending
\* Every operation returns [r |-> the Retryer after it, ev |-> the config
\* callbacks it invoked, in order].

Ev(type, data, error) == [type |-> type, data |-> data, error |-> error]

Out(r, ev) == [r |-> r, ev |-> ev]

\* The `retryer` object and the closure variables of createRetryer, before run().
InitRetryer(retry, fnCancelable, hasFn) ==
  [ phase |-> "stopped",
    isResolved |-> FALSE,
    isRetryCancelled |-> FALSE,
    isPaused |-> FALSE,
    failureCount |-> 0,
    isTransportCancelable |-> FALSE,
    settled |-> "pending",
    value |-> Undefined,
    reason |-> NoError,
    retry |-> retry,
    fnCancelable |-> fnCancelable,
    hasFn |-> hasFn,
    fnCalls |-> 0 ]

\* How often one pass of run() calls config.fn.
FnCallsPerRun == 2

\* run(): does nothing once resolved; otherwise calls config.fn and waits for it.
RetryerRun(r) ==
  IF r.isResolved
    THEN Out([r EXCEPT !.phase = "stopped"], <<>>)
    ELSE Out([r EXCEPT !.phase = "attempt",
                       !.fnCalls = @ + FnCallsPerRun,
                       !.isTransportCancelable = r.fnCancelable], <<>>)

\* resolve(value) without the test of isResolved
RetryerResolveUnguarded(r, value) ==
  Out([r EXCEPT !.isResolved = TRUE, !.settled = "resolved", !.value = value],
      <<Ev("success", value, NoError)>>)

\* resolve(value)
RetryerResolve(r, value) ==
  IF ~r.isResolved
    THEN Out([r EXCEPT !.isResolved = TRUE, !.settled = "resolved", !.value = value],
             <<Ev("success", value, NoError)>>)
    ELSE Out(r, <<>>)

\* reject(value). continueFn?.() ends a pause: the reaction of pause() runs
\* onContinue, and the next reaction finds the Retryer resolved. A unit of
\* work that is pending stays pending: its reactions run when it completes.
RetryerReject(r, error) ==
  IF ~r.isResolved
    THEN LET r1 == [r EXCEPT !.isResolved = TRUE, !.settled = "rejected", !.reason = error]
         IN IF r.phase = "paused"
              THEN Out([r1 EXCEPT !.phase = "stopped", !.isPaused = FALSE],
                       <<Ev("error", Undefined, error), Ev("continue", Undefined, NoError)>>)
              ELSE Out(r1, <<Ev("error", Undefined, error)>>)
    ELSE Out(r, <<>>)

\* The `retry` policy as an integer (false is 0).
ShouldRetry(r) == r.failureCount < r.retry

\* Promise.resolve(promiseOrValue).then(resolve), with a resolve that does not
\* test isResolved
RetryerAttemptResolveAlways(r, value) ==
  RetryerResolveUnguarded([r EXCEPT !.phase = "stopped"], value)

\* Promise.resolve(promiseOrValue).then(resolve)
RetryerAttemptResolve(r, value) ==
  RetryerResolve([r EXCEPT !.phase = "stopped"], value)

\* Promise.resolve(promiseOrValue).catch(error => ...)
RetryerAttemptReject(r, error) ==
  IF r.isResolved
    THEN Out([r EXCEPT !.phase = "stopped"], <<>>)
    ELSE IF r.isRetryCancelled \/ ~ShouldRetry(r)
      THEN RetryerReject([r EXCEPT !.phase = "stopped"], error)
      ELSE Out([r EXCEPT !.phase = "sleep", !.failureCount = @ + 1],
               <<Ev("failed", Undefined, error)>>)

\* MustPause with `&&` for `||`: pauses only when both signals are off.
MustPauseBoth(isFocused, isOnline) == ~isFocused /\ ~isOnline

\* Whether the reaction after sleep(delay) pauses.
MustPause(isFocused, isOnline) == ~isFocused \/ ~isOnline

\* The reaction after the pause or the delay: reject(error) or run().
RetryerAfterDelay(r) ==
  IF r.isRetryCancelled
    THEN RetryerReject([r EXCEPT !.phase = "stopped"], FnError)
    ELSE RetryerRun(r)

\* sleep(delay).then(...) : pause() when not focused or not online.
RetryerSleepElapsed(r, isFocused, isOnline) ==
  IF MustPause(isFocused, isOnline)
    THEN Out([r EXCEPT !.phase = "paused", !.isPaused = TRUE],
             <<Ev("pause", Undefined, NoError)>>)
    ELSE RetryerAfterDelay(r)

\* proceed(): continueFn?.()
RetryerProceed(r) ==
  IF r.phase = "paused"
    THEN LET o == RetryerAfterDelay([r EXCEPT !.isPaused = FALSE])
         IN Out(o.r, <<Ev("continue", Undefined, NoError)>> \o o.ev)
    ELSE Out(r, <<>>)

\* cancel(cancelOptions): cancelFn?.(cancelOptions); the transport's own
\* cancel() only stops the unit of work, whose outcome is ignored from here on.
RetryerCancel(r, revert, silent) ==
  IF ~r.isResolved
    THEN RetryerReject(r, CancelledError(revert, silent))
    ELSE Out(r, <<>>)

\* cancelRetry()
RetryerCancelRetry(r) == Out([r EXCEPT !.isRetryCancelled = TRUE], <<>>)

\* createRetryer(config): the object, then run().
createRetryer(retry, fnCancelable, hasFn) ==
  RetryerRun(InitRetryer(retry, fnCancelable, hasFn)).r

\* ------------------------------------------------------------------ Query
\* The synchronous code of Query, QueryCache and QueryClient is written as
\* operators from a world w = [queries, queriesMap, qs, obsQuery, obsOptions, held, ok] to the
\* world after the call, so that a handler that calls several methods is
\* their composition. ok turns FALSE when a call needs more Query objects
\* than MaxQueries; such a step is not taken.

QIds == 1..MaxQueries
Hashes == 1..MaxHash
ObsIds == 1..MaxObservers
DataValues == 1..MaxData
NoQuery == 0
NoTimer == -1
\* An option the caller left undefined.
NoOpt == -1

Max(a, b) == IF a >= b THEN a ELSE b

\* utils isValidTimeout: a number >= 0 that is not Infinity.
isValidTimeout(value) == value >= 0 /\ value # Infinity

\* utils timeUntilStale: Math.max(updatedAt + (staleTime || 0) - Date.now(), 0)
timeUntilStale(updatedAt, staleTime) ==
  IF staleTime = Infinity
    THEN Infinity
    ELSE Max(updatedAt + (IF staleTime = NoOpt THEN 0 ELSE staleTime) - now, 0)

\* The options of a query as far as the model reads them.
Options(retry, cacheTime, staleTime, hasFn, fnCancelable, initialData) ==
  [ retry |-> retry, cacheTime |-> cacheTime, staleTime |-> staleTime,
    hasFn |-> hasFn, fnCancelable |-> fnCancelable, initialData |-> initialData ]

\* setQueryData: defaultQueryOptions({ queryKey })
KeyOnlyOptions == Options(NoOpt, NoOpt, NoOpt, FALSE, FALSE, Undefined)

\* The query options of every QueryObserver of the model: a query function
\* and retry: false, the rest default.
ObserverOptions == Options(0, NoOpt, NoOpt, TRUE, FALSE, Undefined)

\* What differs between observers: options.enabled (TRUE: not false), whether
\* options.refetchInterval is a valid timeout (then with
\* refetchIntervalInBackground: true), and whether refetchIntervalId is set.
ObserverWith(enabled, refetchInterval) ==
  [enabled |-> enabled, refetchInterval |-> refetchInterval, intervalId |-> FALSE]

\* An observer made without enabled and refetchInterval
DefaultObserver == ObserverWith(TRUE, FALSE)

\* getDefaultState(options)
getDefaultState(opts) ==
  LET hasData == opts.initialData # Undefined
  IN [ data |-> opts.initialData,
       dataUpdateCount |-> 0,
       dataUpdatedAt |-> IF hasData THEN now ELSE 0,
       error |-> NoError,
       errorUpdateCount |-> 0,
       errorUpdatedAt |-> 0,
       fetchFailureCount |-> 0,
       fetchMeta |-> "null",
       isFetching |-> FALSE,
       isInvalidated |-> FALSE,
       isPaused |-> FALSE,
       status |-> IF hasData THEN "success" ELSE "idle" ]

\* The status a reverted cancellation restores.
PreviousStatus(state) ==
  IF state.dataUpdatedAt = 0 /\ state.errorUpdatedAt = 0
    THEN "idle"
    ELSE IF state.dataUpdatedAt > state.errorUpdatedAt THEN "success" ELSE "error"

\* reducer(state, action), but for 'setState'
reducer(state, action) ==
  CASE action.type = "failed" ->
         [state EXCEPT !.fetchFailureCount = @ + 1]
    [] action.type = "pause" ->
         [state EXCEPT !.isPaused = TRUE]
    [] action.type = "continue" ->
         [state EXCEPT !.isPaused = FALSE]
    [] action.type = "fetch" ->
         [state EXCEPT !.fetchFailureCount = 0,
                       !.fetchMeta = "null",
                       !.isFetching = TRUE,
                       !.isPaused = FALSE,
                       !.status = IF state.dataUpdatedAt = 0 THEN "loading" ELSE @]
    [] action.type = "success" ->
         [state EXCEPT !.data = action.data,
                       !.dataUpdateCount = @ + 1,
                       !.dataUpdatedAt = now,
                       !.error = NoError,
                       !.fetchFailureCount = 0,
                       !.isFetching = FALSE,
                       !.isInvalidated = FALSE,
                       !.isPaused = FALSE,
                       !.status = "success"]
    [] action.type = "error" ->
         IF isCancelledError(action.error) /\ ErrRevert(action.error)
           THEN [state EXCEPT !.fetchFailureCount = 0,
                              !.isFetching = FALSE,
                              !.isPaused = FALSE,
                              !.status = PreviousStatus(state)]
           ELSE [state EXCEPT !.error = action.error,
                              !.errorUpdateCount = @ + 1,
                              !.errorUpdatedAt = now,
                              !.fetchFailureCount = @ + 1,
                              !.isFetching = FALSE,
                              !.isPaused = FALSE,
                              !.status = "error"]
    [] action.type = "invalidate" ->
         [state EXCEPT !.isInvalidated = TRUE]
    [] OTHER -> state

\* dispatch(action)
dispatch(w, q, action) == [w EXCEPT !.qs[q].state = reducer(@, action)]

\* setState(state): dispatch({ type: 'setState', state })
setState(w, q, state) == [w EXCEPT !.qs[q].state = state]

\* setData(updater): the new data replaces the old, then 'success'
setData(w, q, data) == dispatch(w, q, Ev("success", data, NoError))

Without(seq, q) ==
  LET Keep(x) == x # q IN SelectSeq(seq, Keep)

\* clearGcTimeout()
clearGcTimeout(w, q) == [w EXCEPT !.qs[q].gcTimeout = NoTimer]

\* scheduleGc(): the timer is the instant it is due.
scheduleGc(w, q) ==
  IF isValidTimeout(w.qs[q].cacheTime)
    THEN [w EXCEPT !.qs[q].gcTimeout = now + w.qs[q].cacheTime]
    ELSE clearGcTimeout(w, q)

\* setOptions(newOptions): cacheTime only grows.
setOptions(w, q, cacheTimeOption) ==
  [w EXCEPT !.qs[q].cacheTime =
     Max(@, IF cacheTimeOption = NoOpt THEN DefaultCacheTime ELSE cacheTimeOption)]

\* MayRemove with the negation of isFetching dropped.
MayRemoveWhileFetching(qr) == qr.observers = <<>> /\ qr.state.isFetching

\* Whether optionalRemove() removes: no observers and not fetching.
MayRemove(qr) == qr.observers = <<>> /\ ~qr.state.isFetching

\* Whether the Retryer's onError dispatches 'error'.
DispatchesError(error) == ~(isCancelledError(error) /\ ErrSilent(error))

RECURSIVE cacheRemove(_, _), queryCancel(_, _, _, _), applyEvents(_, _, _),
          onEvent(_, _, _), optionalRemove(_, _), removeUncached(_, _),
          retryerCalled(_, _, _)

\* optionalRemove()
optionalRemove(w, q) ==
  IF MayRemove(w.qs[q]) THEN cacheRemove(w, q) ELSE w

\* if (this.cacheTime === 0) this.optionalRemove()
removeUncached(w, q) ==
  IF w.qs[q].cacheTime = 0 THEN optionalRemove(w, q) ELSE w

\* The callbacks Query.fetch hands to createRetryer.
onEvent(w, q, e) ==
  CASE e.type = "success" -> removeUncached(setData(w, q, e.data), q)
    [] e.type = "error" ->
         removeUncached(IF DispatchesError(e.error) THEN dispatch(w, q, e) ELSE w, q)
    [] OTHER -> dispatch(w, q, e)

applyEvents(w, q, evs) ==
  IF evs = <<>> THEN w ELSE applyEvents(onEvent(w, q, Head(evs)), q, Tail(evs))

\* The Query's current Retryer after a call on it, and the callbacks the
\* call made.
retryerCalled(w, q, out) ==
  applyEvents([w EXCEPT !.qs[q].retryers[Len(w.qs[q].retryers)] = out.r], q, out.ev)

\* cancel(options): retryer?.cancel(options)
queryCancel(w, q, revert, silent) ==
  LET n == Len(w.qs[q].retryers)
  IN IF n = 0
       THEN w
       ELSE retryerCalled(w, q, RetryerCancel(w.qs[q].retryers[n], revert, silent))

\* QueryCache.remove(query), with Query.destroy()
cacheRemove(w, q) ==
  LET h == w.qs[q].queryHash
      queryInMap == w.queriesMap[h]
  IN IF queryInMap # NoQuery
       THEN [queryCancel(clearGcTimeout(w, q), q, FALSE, TRUE) EXCEPT
               !.queries = Without(@, q),
               !.queriesMap[h] = IF queryInMap = q THEN NoQuery ELSE @]
       ELSE w

\* cacheAdd without the look-up in queriesMap.
cacheAddUnchecked(w, q) ==
  [w EXCEPT !.queriesMap[w.qs[q].queryHash] = q, !.queries = Append(@, q)]

\* QueryCache.add(query)
cacheAdd(w, q) ==
  LET h == w.qs[q].queryHash
  IN IF w.queriesMap[h] = NoQuery
       THEN [w EXCEPT !.queriesMap[h] = q, !.queries = Append(@, q)]
       ELSE w

\* What a fetch finds when it starts: the part of the state a reverted
\* cancellation is to restore.
Snapshot(state) == [status |-> state.status, data |-> state.data, error |-> state.error]

\* The slot of a Query object that does not exist. retryers are the Retryers
\* the Query created that still have something pending, the last one being
\* `retryer`; joined and before are history: whether a fetch() call returned
\* the promise of `retryer`, and the Snapshot its fetch() found.
NoQueryObject ==
  [ created |-> FALSE, queryHash |-> 1, hasFn |-> FALSE, fnCancelable |-> FALSE,
    retry |-> 0, initialState |-> getDefaultState(KeyOnlyOptions),
    state |-> getDefaultState(KeyOnlyOptions), cacheTime |-> 0, gcTimeout |-> NoTimer,
    observers |-> <<>>, retryers |-> <<>>, joined |-> FALSE,
    before |-> Snapshot(getDefaultState(KeyOnlyOptions)) ]

\* createQuery(config): `options` is the constant the closures of fetch read.
createQuery(w, q, h, opts) ==
  LET obj == [ NoQueryObject EXCEPT
                 !.created = TRUE,
                 !.queryHash = h,
                 !.hasFn = opts.hasFn,
                 !.fnCancelable = opts.fnCancelable,
                 !.retry = IF opts.retry = NoOpt THEN DefaultRetry ELSE opts.retry,
                 !.initialState = getDefaultState(opts),
                 !.state = getDefaultState(opts) ]
  IN scheduleGc(setOptions([w EXCEPT !.qs[q] = obj], q, opts.cacheTime), q)

FreeIds(w) == {q \in QIds : ~w.qs[q].created}

\* QueryCache.build(client, options): [w, q], q the Query of the hash.
cacheBuild(w, h, opts) ==
  IF w.queriesMap[h] # NoQuery
    THEN [w |-> w, q |-> w.queriesMap[h]]
    ELSE IF FreeIds(w) = {}
      THEN [w |-> [w EXCEPT !.ok = FALSE], q |-> NoQuery]
      ELSE LET q == CHOOSE x \in FreeIds(w) : \A y \in FreeIds(w) : x <= y
           IN [w |-> cacheAdd(createQuery(w, q, h, opts), q), q |-> q]

\* Whether fetch() returns the promise of the fetch in flight.
JoinsFetch(qr, cancelRefetch) ==
  /\ qr.state.isFetching
  /\ ~(qr.state.dataUpdatedAt # 0 /\ cancelRefetch)
  /\ qr.retryers # <<>>

\* Whether fetch() silently cancels the fetch in flight first.
CancelsFetch(qr, cancelRefetch) ==
  qr.state.isFetching /\ qr.state.dataUpdatedAt # 0 /\ cancelRefetch

\* The Retryers with something pending.
Live(retryers) ==
  LET Pending(r) == r.phase # "stopped" IN SelectSeq(retryers, Pending)

\* Query.fetch(newOptions, fetchOptions). fetchOptions.meta is undefined and
\* state.fetchMeta is null, so 'fetch' is dispatched on every pass.
\* fetch(): without a queryFn, the options of the first observer that has one
observerQueryFn(w, q) ==
  IF ~w.qs[q].hasFn /\ w.qs[q].observers # <<>>
    THEN setOptions(w, q, ObserverOptions.cacheTime)
    ELSE w

\* fetch(): dispatch 'fetch' and create the Retryer
startRetryer(w, q) ==
  LET qr == w.qs[q]
  IN [w EXCEPT !.qs[q].state = reducer(@, Ev("fetch", Undefined, NoError)),
               !.qs[q].retryers =
                 Append(Live(@), createRetryer(qr.retry, qr.fnCancelable, qr.hasFn)),
               !.qs[q].joined = FALSE,
               !.qs[q].before = Snapshot(qr.state)]

queryFetch(w, q, cacheTimeOption, cancelRefetch) ==
  IF JoinsFetch(w.qs[q], cancelRefetch)
    THEN [w EXCEPT !.qs[q].joined = TRUE]
    ELSE startRetryer(
           observerQueryFn(
             setOptions(IF CancelsFetch(w.qs[q], cancelRefetch)
                          THEN queryCancel(w, q, FALSE, TRUE)
                          ELSE w,
                        q, cacheTimeOption),
             q),
           q)

\* isStaleByTime that forgets its argument.
isStaleByTimeZero(qr, staleTime) ==
  \/ qr.state.isInvalidated
  \/ qr.state.dataUpdatedAt = 0
  \/ timeUntilStale(qr.state.dataUpdatedAt, NoOpt) = 0

\* isStaleByTime without state.isInvalidated
isStaleByTimeOnly(qr, staleTime) ==
  \/ qr.state.dataUpdatedAt = 0
  \/ timeUntilStale(qr.state.dataUpdatedAt, staleTime) = 0

\* Query.isStaleByTime(staleTime)
isStaleByTime(qr, staleTime) ==
  \/ qr.state.isInvalidated
  \/ qr.state.dataUpdatedAt = 0
  \/ timeUntilStale(qr.state.dataUpdatedAt, staleTime) = 0

\* What fetchQuery returns when it fetches: the promise of the fetch.
FetchPromise == -2

\* fetchQuery with the Query it built: fetch when stale, else the data.
\* [w, q, result]: the Query, and the data the returned promise is resolved
\* with at once or FetchPromise.
fetchBuilt(b, defaulted) ==
  IF b.q = NoQuery
       THEN [w |-> b.w, q |-> NoQuery, result |-> FetchPromise]
       ELSE IF isStaleByTime(b.w.qs[b.q], defaulted.staleTime)
         THEN [w |-> queryFetch(b.w, b.q, defaulted.cacheTime, FALSE), q |-> b.q,
               result |-> FetchPromise]
         ELSE [w |-> b.w, q |-> b.q, result |-> b.w.qs[b.q].state.data]

\* QueryClient.fetchQuery(options): retry defaults to false.
fetchQuery(w, h, opts) ==
  LET defaulted == [opts EXCEPT !.retry = IF @ = NoOpt THEN 0 ELSE @]
  IN fetchBuilt(cacheBuild(w, h, defaulted), defaulted)

\* setQueryData: query.setData(updater) of the Query the cache built
setBuilt(b, data) == IF b.q = NoQuery THEN b.w ELSE setData(b.w, b.q, data)

\* QueryClient.setQueryData(queryKey, updater)
setQueryData(w, h, data) == setBuilt(cacheBuild(w, h, KeyOnlyOptions), data)

\* Query.invalidate()
queryInvalidate(w, q) ==
  IF ~w.qs[q].state.isInvalidated
    THEN dispatch(w, q, Ev("invalidate", Undefined, NoError))
    ELSE w

\* Query.addObserver(observer)
addObserver(w, q, o) ==
  IF \A i \in 1..Len(w.qs[q].observers) : w.qs[q].observers[i] # o
    THEN clearGcTimeout([w EXCEPT !.qs[q].observers = Append(@, o)], q)
    ELSE w

\* removeObserver that leaves the Retryer alone.
DetachRetryerKeeps(r) == Out(r, <<>>)

\* What removeObserver does with the Retryer once no observer is left.
DetachRetryer(r) ==
  IF r.isTransportCancelable THEN RetryerCancel(r, FALSE, FALSE) ELSE RetryerCancelRetry(r)

\* Query.removeObserver(observer)
\* removeObserver: the Retryer once no observer is left
detachRetryer(w, q) ==
  LET n == Len(w.qs[q].retryers)
  IN IF n = 0 THEN w ELSE retryerCalled(w, q, DetachRetryer(w.qs[q].retryers[n]))

\* removeObserver: if (this.cacheTime) scheduleGc() else cache.remove(this)
gcOrRemove(w, q) ==
  IF w.qs[q].cacheTime # 0 THEN scheduleGc(w, q) ELSE cacheRemove(w, q)

removeObserver(w, q, o) ==
  IF \E i \in 1..Len(w.qs[q].observers) : w.qs[q].observers[i] = o
    THEN LET w1 == [w EXCEPT !.qs[q].observers = Without(@, o)]
         IN IF w1.qs[q].observers = <<>>
              THEN gcOrRemove(detachRetryer(w1, q), q)
              ELSE w1
    ELSE w

RECURSIVE ForEach(_, _, _)
\* list.forEach(q => Op(w, q)), over the list as it was when the loop began.
ForEach(Op(_, _), w, list) ==
  IF list = <<>> THEN w ELSE ForEach(Op, Op(w, Head(list)), Tail(list))

\* QueryCache.clear()
cacheClear(w) == ForEach(cacheRemove, w, w.queries)

\* QueryClient.cancelQueries(filters, cancelOptions) over every query
cancelQueries(w, revert, silent) ==
  LET Cancel(x, q) == queryCancel(x, q, revert, silent)
  IN ForEach(Cancel, w, w.queries)

\* Query.isActive(): some observer is not disabled
isActive(w, q) ==
  \E i \in 1..Len(w.qs[q].observers) : w.obsOptions[w.qs[q].observers[i]].enabled

\* QueryClient.refetchQueries(filters): query.fetch() without options
refetchQueries(w, activeOnly) ==
  LET Refetch(x, q) == queryFetch(x, q, NoOpt, FALSE)
      Match(q) == ~activeOnly \/ isActive(w, q)
  IN ForEach(Refetch, w, SelectSeq(w.queries, Match))

\* QueryClient.invalidateQueries(): invalidate all, refetch the active ones
invalidateQueries(w) ==
  refetchQueries(ForEach(queryInvalidate, w, w.queries), TRUE)

\* --------------------------------------------------------------- Mutation
\* One Mutation of the MutationCache (mutation.ts, createMutation).
\*   retryers   the Retryers executeMutation() created; the last one is the
\*              closure variable `retryer`
\*   chains     one record per execute() call, the promise chain it built:
\*                pos   the reaction of the chain that is pending
\*                r     the Retryer the chain waits for (0: none yet)
\*                log   history: the callbacks the chain has run, in order
\*   resumes    continue() calls that resumePausedMutations() has queued
\*   fnCalls    history: how often options.mutationFn was to be invoked
\*   observers  how many MutationObservers the Mutation holds
\*   listed     whether the list of the MutationCache holds the Mutation
\* onErrorCalls and loggerErrors count the calls of mutationCache.config.onError
\* and getLogger().error; failures is history: how often a Retryer's promise
\* was rejected with an error that is not a CancelledError.

\* getDefaultState() of mutation.ts
mutationDefaultState ==
  [ context |-> Undefined, data |-> Undefined, error |-> NoError, failureCount |-> 0,
    isPaused |-> FALSE, status |-> "idle" ]

\* reducer(state, action) of mutation.ts; a 'loading' action carries its
\* context in the data field.
mutationReducer(state, action) ==
  CASE action.type = "failed" ->
         [state EXCEPT !.failureCount = @ + 1]
    [] action.type = "pause" ->
         [state EXCEPT !.isPaused = TRUE]
    [] action.type = "continue" ->
         [state EXCEPT !.isPaused = FALSE]
    [] action.type = "loading" ->
         [state EXCEPT !.context = action.data, !.data = Undefined, !.error = NoError,
                       !.isPaused = FALSE, !.status = "loading"]
    [] action.type = "success" ->
         [state EXCEPT !.data = action.data, !.error = NoError,
                       !.status = "success", !.isPaused = FALSE]
    [] action.type = "error" ->
         [state EXCEPT !.data = Undefined, !.error = action.error,
                       !.failureCount = @ + 1, !.isPaused = FALSE,
                       !.status = "error"]
    [] OTHER -> state

mutationDispatch(m, action) == [m EXCEPT !.state = mutationReducer(@, action)]

\* createMutation(config): options.retry, whether options.mutationFn is set,
\* and config.state || getDefaultState()
createMutation(retry, hasFn, state) ==
  [ state |-> state, retry |-> retry, hasFn |-> hasFn,
    retryers |-> <<>>, chains |-> <<>>, resumes |-> 0, fnCalls |-> 0,
    onErrorCalls |-> 0, loggerErrors |-> 0, failures |-> 0,
    observers |-> 0, listed |-> FALSE ]

NoMutation == createMutation(NoOpt, FALSE, mutationDefaultState)

\* A Mutation as persisted while 'loading': its variables and context stored.
StoredContext == 1
RestoredState(isPaused) ==
  [mutationDefaultState EXCEPT !.status = "loading", !.context = StoredContext,
                               !.isPaused = isPaused]

\* The promise chain of one execute() call; promise is the promise execute()
\* returned.
Chain(restored) ==
  [ restored |-> restored, pos |-> IF restored THEN "start" ELSE "onMutate",
    r |-> 0, log |-> <<>>, data |-> Undefined, error |-> NoError,
    promise |-> "pending" ]

\* mutationExecute that takes every start for a fresh one.
mutationExecuteFresh(m) ==
  [mutationDispatch(m, Ev("loading", Undefined, NoError)) EXCEPT
     !.chains = Append(@, Chain(FALSE))]

\* execute(), the synchronous part: `restored`, and 'loading' on a fresh start
mutationExecute(m) ==
  LET restored == m.state.status = "loading"
      m1 == IF ~restored
              THEN mutationDispatch(m, Ev("loading", Undefined, NoError))
              ELSE m
  IN [m1 EXCEPT !.chains = Append(@, Chain(restored))]

\* The reactions of a fresh start: options.onMutate(variables) returns the
\* context, which is dispatched when it is not the stored one.
mutationOnMutate(m, c, context) ==
  LET m1 == IF context # m.state.context
              THEN mutationDispatch(m, Ev("loading", context, NoError))
              ELSE m
  IN [m1 EXCEPT !.chains[c].log = Append(@, "onMutate"), !.chains[c].pos = "start"]

\* executeMutation(): retry is `options.retry ?? 0`
executeMutation(m, c) ==
  [m EXCEPT !.retryers = Append(@, createRetryer(IF m.retry = NoOpt THEN 0 ELSE m.retry,
                                                 FALSE, m.hasFn)),
            !.fnCalls = @ + FnCallsPerRun,
            !.chains[c].r = Len(m.retryers) + 1,
            !.chains[c].log = Append(@, "fn"),
            !.chains[c].pos = "running"]

\* The chains that wait for Retryer i.
WaitingFor(m, i) == {c \in 1..Len(m.chains) : m.chains[c].r = i /\ m.chains[c].pos = "running"}

\* .then(result => { data = result }): onSuccess is next.
mutationOnFulfilled(m, c, data) ==
  [m EXCEPT !.chains[c].data = data, !.chains[c].pos = "onSuccess"]

\* The .catch(error => ...) of execute(): the cache callback and the logger;
\* options.onError is next.
mutationOnRejected(m, c, error) ==
  [m EXCEPT !.onErrorCalls = @ + 1,
            !.loggerErrors = @ + 1,
            !.failures = IF isCancelledError(error) THEN @ ELSE @ + 1,
            !.chains[c].error = error,
            !.chains[c].log = Append(@, "cache.onError"),
            !.chains[c].pos = "onError"]

\* A chain whose last reaction has run: its history ends with it.
EndOfChain(ch) ==
  [ch EXCEPT !.pos = "done", !.log = <<>>, !.data = Undefined, !.error = NoError]

\* A Retryer of the Mutation with nothing pending: every call on it returns
\* at once, whatever its other fields are.
MutStopped(r) ==
  IF r.phase = "stopped" /\ r.isResolved
    THEN [InitRetryer(0, FALSE, FALSE) EXCEPT !.isResolved = TRUE]
    ELSE r

\* mutationReaction with the terminal state dispatched before options.onSettled.
mutationReactionEager(m, c) ==
  LET ch == m.chains[c]
  IN CASE ch.pos \in {"onSuccess", "onError"} ->
            [m EXCEPT !.chains[c].log = Append(@, ch.pos), !.chains[c].pos = "dispatch"]
       [] ch.pos = "dispatch" ->
            LET m1 == IF ch.error = NoError
                        THEN mutationDispatch(m, Ev("success", ch.data, NoError))
                        ELSE mutationDispatch(m, Ev("error", Undefined, ch.error))
            IN [m1 EXCEPT !.chains[c].pos = "onSettled"]
       [] ch.pos = "onSettled" ->
            [m EXCEPT !.chains[c] =
                        [ch EXCEPT !.pos = "done", !.log = <<>>, !.data = Undefined,
                                   !.error = NoError,
                                   !.promise = IF ch.error = NoError
                                                 THEN "resolved" ELSE "rejected"]]
       [] OTHER -> m

\* The next reaction of a settled chain: options.onSuccess or options.onError,
\* then options.onSettled, then the dispatch of the terminal state.
mutationReaction(m, c) ==
  LET ch == m.chains[c]
  IN CASE ch.pos = "onSuccess" ->
            [m EXCEPT !.chains[c].log = Append(@, "onSuccess"), !.chains[c].pos = "onSettled"]
       [] ch.pos = "onError" ->
            [m EXCEPT !.chains[c].log = Append(@, "onError"), !.chains[c].pos = "onSettled"]
       [] ch.pos = "onSettled" ->
            [m EXCEPT !.chains[c].log = Append(@, "onSettled"), !.chains[c].pos = "dispatch"]
       [] ch.pos = "dispatch" ->
            LET m1 == IF ch.error = NoError
                        THEN mutationDispatch(m, Ev("success", ch.data, NoError))
                        ELSE mutationDispatch(m, Ev("error", Undefined, ch.error))
            IN [m1 EXCEPT !.chains[c] =
                            EndOfChain([ch EXCEPT !.promise = IF ch.error = NoError
                                                                THEN "resolved"
                                                                ELSE "rejected"])]
       [] OTHER -> m

\* The callback a chain is about to call throws (or returns a promise that is
\* rejected). onMutate, onSuccess and the onSettled after onSuccess are in
\* front of the .catch of execute(), which takes the error; onError and the
\* onSettled after it are inside the .catch, whose promise is rejected before
\* the reaction that dispatches 'error'.
mutationThrows(m, c) ==
  LET ch == m.chains[c]
      called == [m EXCEPT !.chains[c].log = Append(@, ch.pos)]
  IN IF ch.pos = "onMutate" \/ ch.pos = "onSuccess"
          \/ (ch.pos = "onSettled" /\ ch.error = NoError)
       THEN [mutationOnRejected(called, c, CallbackError) EXCEPT !.failures = m.failures]
       ELSE IF ch.pos = "onError" \/ ch.pos = "onSettled"
         THEN [m EXCEPT !.chains[c] = EndOfChain([ch EXCEPT !.promise = "rejected"])]
         ELSE m

\* The callbacks executeMutation hands to createRetryer: onFail, onPause, onContinue.
RECURSIVE mutationEvents(_, _)
mutationEvents(m, evs) ==
  IF evs = <<>>
    THEN m
    ELSE mutationEvents(IF Head(evs).type \in {"failed", "pause", "continue"}
                          THEN mutationDispatch(m, Head(evs))
                          ELSE m,
                        Tail(evs))

\* A step of Retryer i of the Mutation, and the reaction of the chain that
\* waits for its promise.
mutationApply(m, i, o) ==
  LET m0 == mutationEvents([m EXCEPT !.retryers[i] = MutStopped(o.r)], o.ev)
      ran == o.r.fnCalls > m.retryers[i].fnCalls
      m1 == [m0 EXCEPT !.fnCalls = @ + (o.r.fnCalls - m.retryers[i].fnCalls)]
      settles == ~m.retryers[i].isResolved /\ o.r.isResolved
  IN IF WaitingFor(m, i) = {}
       THEN m1
       ELSE LET c == CHOOSE x \in WaitingFor(m, i) : TRUE
                m2 == IF ran THEN [m1 EXCEPT !.chains[c].log = Append(@, "fn")] ELSE m1
            IN IF settles
                 THEN IF o.r.settled = "resolved"
                        THEN mutationOnFulfilled(m2, c, o.r.value)
                        ELSE mutationOnRejected(m2, c, o.r.reason)
                 ELSE m2

\* cancel()
mutationCancel(m) ==
  IF m.retryers # <<>>
    THEN mutationApply(m, Len(m.retryers), RetryerCancel(m.retryers[Len(m.retryers)], FALSE, FALSE))
    ELSE m

\* continue()
mutationContinue(m) ==
  IF m.retryers # <<>>
    THEN mutationApply(m, Len(m.retryers), RetryerProceed(m.retryers[Len(m.retryers)]))
    ELSE mutationExecute(m)

\* MutationCache.build(client, options): createMutation, then add(mutation)
mutationCacheBuild(retry, hasFn) ==
  [createMutation(retry, hasFn, mutationDefaultState) EXCEPT !.listed = TRUE]

\* MutationCache.remove(mutation): off the list, then mutation.cancel()
mutationCacheRemove(m) == mutationCancel([m EXCEPT !.listed = FALSE])

\* Mutation.addObserver(observer) of an observer it does not hold
mutationAddObserver(m) == [m EXCEPT !.observers = @ + 1]

\* Mutation.removeObserver(observer) of an observer it holds
mutationRemoveObserver(m) == [m EXCEPT !.observers = @ - 1]

\* MutationObserver.mutate() once the cache has built the Mutation:
\* addObserver(mutationObserver), then execute()
observerMutate(m) == mutationExecute(mutationAddObserver(m))

\* MutationCache.resumePausedMutations(), also as onFocus() and onOnline():
\* continue() of the Mutation is queued when it is paused.
resumePausedMutations(m) ==
  IF m.state.isPaused THEN [m EXCEPT !.resumes = @ + 1] ELSE m

\* ---------------------------------------------------------- MutationCache
\* The MutationCache with several Mutations (mutationCache.ts).
\*   mutations  `mutations`: the Mutations in the order they were added
\*   resumes    one record per resumePausedMutations() call that found paused
\*              Mutations, the promise chain it built:
\*                paused    pausedMutations, as indices of `mutations`
\*                returned  history: the promise each continue() call of the
\*                          chain returned, in the order of the calls
\*                done      whether the promise of the chain has settled

NoMutationCache == [mutations |-> <<>>, resumes |-> <<>>]

\* mutations.filter(x => x.state.isPaused)
pausedMutations(mc) ==
  SelectSeq([k \in 1..Len(mc.mutations) |-> k],
            LAMBDA k : mc.mutations[k].state.isPaused)

\* The promise mutation.continue() returns: retryer.promise when there is a
\* Retryer, or else the promise of the execute() call it makes.
continuePromise(m) ==
  IF m.retryers # <<>>
    THEN [kind |-> "retryer", at |-> Len(m.retryers)]
    ELSE [kind |-> "execute", at |-> Len(m.chains) + 1]

\* Whether promise p of Mutation m has settled, and whether it was rejected
\* (`failures` counts the rejections of the Mutation's Retryers).
PromiseSettled(m, p) ==
  IF p.kind = "retryer"
    THEN m.retryers[p.at].isResolved
    ELSE m.chains[p.at].promise # "pending"

PromiseRejected(m, p) ==
  IF p.kind = "retryer"
    THEN m.retryers[p.at].isResolved /\ m.failures > 0
    ELSE m.chains[p.at].promise = "rejected"

\* resumePausedMutations(): the list of the paused Mutations is taken and the
\* chain is built; its first reaction follows Promise.resolve().
resumePausedMutationsCall(mc) ==
  IF pausedMutations(mc) # <<>>
    THEN [mc EXCEPT !.resumes = Append(@, [paused |-> pausedMutations(mc),
                                           returned |-> <<>>, done |-> FALSE])]
    ELSE mc

\* resumeReady that does not wait for the promise of the continue() before.
resumeReadyAtOnce(mc, j) == TRUE

\* promise.then(...): the next reaction of chain j runs once the promise of
\* the reaction before, mutation.continue().catch(noop), has settled.
resumeReady(mc, j) ==
  LET ch == mc.resumes[j]
  IN IF ch.returned = <<>>
       THEN TRUE
       ELSE PromiseSettled(mc.mutations[ch.returned[Len(ch.returned)].mutation],
                           ch.returned[Len(ch.returned)])

\* The next reaction of chain j: `mutation.continue().catch(noop)` of the next
\* paused Mutation, or the end of the chain.
resumeReaction(mc, j) ==
  LET ch == mc.resumes[j]
      n == Len(ch.returned) + 1
  IN IF n > Len(ch.paused)
       THEN [mc EXCEPT !.resumes[j].done = TRUE]
       ELSE LET k == ch.paused[n]
                m == mc.mutations[k]
            IN [mc EXCEPT !.mutations[k] = mutationContinue(m),
                          !.resumes[j].returned =
                             Append(@, [mutation |-> k, kind |-> continuePromise(m).kind,
                                        at |-> continuePromise(m).at])]

\* ------------------------------------------- a QueryObserver's results
\* One subscribed QueryObserver, the state of its Query and the notifyManager,
\* in a server-side environment (isServer: no stale or refetch timer is set).
\*   factory        which implementation made the observer: "make" is
\*                  makeQueryObserver (core/queryObserver.ts), "create" is
\*                  createQueryObserver
\*   batched        whether the listener was wrapped with batchCalls
\*   filtered, props  options.notifyOnChangeProps, when it is given
\*   state          the Query's state
\*   currentResult  the observer's currentResult
\*   transactions, queue, microtasks   the notifyManager and the microtasks
\*                  it has scheduled
\*   calls          history: the listener invocations the last step made,
\*                  each with the depth of notifyManager.batch it was made at

\* The properties of a result that the model keeps.
ResultProps ==
  {"status", "data", "dataUpdatedAt", "error", "failureCount", "isFetched",
   "isFetching", "isStale"}

\* `let currentResult` before anything is assigned to it
NoResult ==
  [ defined |-> FALSE, status |-> "idle", data |-> Undefined, dataUpdatedAt |-> 0,
    error |-> NoError, failureCount |-> 0, isFetched |-> FALSE,
    isFetching |-> FALSE, isStale |-> TRUE ]

\* observer.getNewResult() without select, keepPreviousData and placeholderData
getNewResult(o) ==
  [ defined |-> TRUE,
    status |-> o.state.status,
    data |-> o.state.data,
    dataUpdatedAt |-> o.state.dataUpdatedAt,
    error |-> o.state.error,
    failureCount |-> o.state.fetchFailureCount,
    isFetched |-> o.state.dataUpdateCount > 0 \/ o.state.errorUpdateCount > 0,
    isFetching |-> o.state.isFetching,
    isStale |-> isStaleByTime([state |-> o.state], o.staleTime) ]

\* shallowEqualObjects(a, b) of core/utils: the same properties with the same
\* values; an object and undefined are not equal.
shallowEqualObjects(a, b) == a = b

\* notifyManager.flush(): the microtask reads `queue` when it runs. queued and
\* depth are history: the callbacks that were in `queue` and the value of
\* `transactions` when flush() was called.
nmFlush(o) ==
  [o EXCEPT !.microtasks = IF o.queue # <<>>
                             THEN Append(@, [kind |-> "flush", result |-> NoResult,
                                             queued |-> o.queue,
                                             depth |-> o.transactions])
                             ELSE @,
            !.queue = <<>>]

\* notifyManager.batch(callback), before and after the callback
nmBatchBegin(o) == [o EXCEPT !.transactions = @ + 1]

\* nmBatchEnd that flushes whenever a batch returns.
nmBatchEndEager(o) == nmFlush([o EXCEPT !.transactions = @ - 1])

nmBatchEnd(o) ==
  LET o1 == [o EXCEPT !.transactions = @ - 1]
  IN IF o1.transactions = 0 THEN nmFlush(o1) ELSE o1

\* notifyManager.schedule(callback); the callback calls the listener with result
nmSchedule(o, result) ==
  IF o.transactions > 0
    THEN [o EXCEPT !.queue = Append(@, result)]
    ELSE [o EXCEPT !.microtasks = Append(@, [kind |-> "call", result |-> result,
                                             queued |-> <<>>,
                                             depth |-> o.transactions])]

\* The listener itself runs.
listenerRuns(o, result) ==
  [o EXCEPT !.calls = Append(@, [depth |-> o.transactions, result |-> result])]

\* listener(currentResult): the listener, or its batchCalls wrapper
callListener(o) ==
  IF o.batched THEN nmSchedule(o, o.currentResult) ELSE listenerRuns(o, o.currentResult)

\* notify(notifyOptions), without onSuccess / onError options and cache listeners
notify(o, listeners) ==
  LET o1 == nmBatchBegin(o)
  IN nmBatchEnd(IF listeners THEN callListener(o1) ELSE o1)

\* shouldNotifyListeners(prevResult, result); same: they are one object
shouldNotifyListeners(o, same, prevResult, result) ==
  IF same
    THEN FALSE
    ELSE IF ~prevResult.defined
      THEN TRUE
      ELSE IF ~o.filtered
        THEN TRUE
        ELSE \E key \in ResultProps : prevResult[key] # result[key] /\ key \in o.props

\* makeQueryObserver: updateResult()
updateResult(o) ==
  LET result == getNewResult(o)
  IN IF ~shallowEqualObjects(result, o.currentResult)
       THEN [o EXCEPT !.currentResult = result]
       ELSE o

\* makeQueryObserver: onQueryUpdate(action)
onQueryUpdate(o) ==
  LET prevResult == o.currentResult
      o1 == updateResult(o)
  IN IF prevResult = o1.currentResult
       THEN o1
       ELSE notify(o1, shouldNotifyListeners(o1, FALSE, prevResult, o1.currentResult))

\* createQueryObserver: updateResult(action), which is all of onQueryUpdate
\* where no timers are set. The new result is a new object.
createdUpdateResult(o) ==
  LET prevResult == o.currentResult
      result == getNewResult(o)
  IN IF ~shallowEqualObjects(result, prevResult)
       THEN o
       ELSE notify([o EXCEPT !.currentResult = result],
                   shouldNotifyListeners(o, FALSE, prevResult, result))

\* Query.dispatch(action) with the observer attached: the state write, then
\* observer.onQueryUpdate(action) inside notifyManager.batch
dispatchNotify(o, action) ==
  LET o1 == nmBatchBegin([o EXCEPT !.state = reducer(@, action)])
  IN nmBatchEnd(IF o.factory = "make" THEN onQueryUpdate(o1) ELSE createdUpdateResult(o1))

\* Query.fetch() as far as the state goes: 'fetch' unless a fetch is joined
observedFetch(o) ==
  IF o.state.isFetching THEN o ELSE dispatchNotify(o, Ev("fetch", Undefined, NoError))

\* QueryClient.invalidateQueries(): one batch that invalidates the Query and
\* refetches it when it is active
observedInvalidate(o) ==
  LET o1 == nmBatchBegin(o)
      o2 == IF ~o1.state.isInvalidated
              THEN dispatchNotify(o1, Ev("invalidate", Undefined, NoError))
              ELSE o1
  IN nmBatchEnd(IF o2.enabled THEN observedFetch(o2) ELSE o2)

RECURSIVE runQueue(_, _)
\* queue.forEach(callback => notifyFn(callback))
runQueue(o, queue) ==
  IF queue = <<>> THEN o ELSE runQueue(listenerRuns(o, Head(queue)), Tail(queue))

\* The first scheduled microtask runs.
runMicrotask(o) ==
  LET t == Head(o.microtasks)
      o1 == [o EXCEPT !.microtasks = Tail(@)]
  IN IF t.kind = "flush" THEN runQueue(o1, o1.queue) ELSE listenerRuns(o1, t.result)

\* The observer after subscribe(listener) on a Query whose data setQueryData
\* wrote; with staleTime Infinity nothing is fetched on mount.
Subscribed(factory, batched, filtered, enabled) ==
  LET state == reducer(getDefaultState(KeyOnlyOptions), Ev("success", 1, NoError))
      o == [ factory |-> factory, batched |-> batched, filtered |-> filtered,
             props |-> {"data"}, enabled |-> enabled, staleTime |-> Infinity,
             state |-> state, currentResult |-> NoResult,
             transactions |-> 0, queue |-> <<>>, microtasks |-> <<>>, calls |-> <<>> ]
  IN IF factory = "make" THEN updateResult(o) ELSE createdUpdateResult(o)

NoObserver == Subscribed("make", FALSE, FALSE, TRUE)

\* ------------------------------------------- timers of Query and observers
\* One query key with its Query and two QueryObservers (makeQueryObserver)
\* in a browser: isServer is false.
\*   state      the state of the Query the cache holds for the key
\*   observers  `observers` of that Query
\*   removed    whether the Query was removed from the cache
\*   gcTimeout  `gcTimeout` of the Query
\*   obs        the observers: listeners, the options staleTime,
\*              refetchInterval and enabled, currentResult, staleTimeoutId,
\*              refetchIntervalId, and what the observer's listener does when
\*              it is called: unsubscribes is the observer whose listener it
\*              unsubscribes (0: none)
\*   pending    the timeouts and intervals that are set and not cleared, a
\*              timeout until it has fired: [kind, owner, due]
\* A timer id is the timer's record.

\* QueryObservers of the key.
MaxTimedObservers == 2
TmObs == 1..MaxTimedObservers

\* A timer variable that is undefined.
NoTimerId == [kind |-> "undefined", owner |-> 0, due |-> 0]

setTimer(t, kind, owner, due) ==
  [t EXCEPT !.pending = Append(@, [kind |-> kind, owner |-> owner, due |-> due])]

\* clearTimeout(id), clearInterval(id): nothing when id is undefined or is
\* not pending any more.
clearTimer(t, id) ==
  LET I == {i \in 1..Len(t.pending) : t.pending[i] = id}
  IN IF id = NoTimerId \/ I = {}
       THEN t
       ELSE LET i == CHOOSE x \in I : \A y \in I : x <= y
            IN [t EXCEPT !.pending = SubSeq(@, 1, i - 1) \o SubSeq(@, i + 1, Len(@))]

\* Query: clearGcTimeout()
tmClearGcTimeout(t) == [clearTimer(t, t.gcTimeout) EXCEPT !.gcTimeout = NoTimerId]

\* Query: scheduleGc(), with the default cacheTime
tmScheduleGc(t) ==
  LET t1 == tmClearGcTimeout(t)
  IN IF isValidTimeout(DefaultCacheTime)
       THEN [setTimer(t1, "gc", 0, now + DefaultCacheTime) EXCEPT
               !.gcTimeout = [kind |-> "gc", owner |-> 0, due |-> now + DefaultCacheTime]]
       ELSE t1

\* QueryObserver: clearStaleTimeout(), clearRefetchInterval()
clearStaleTimeout(t, o) ==
  [clearTimer(t, t.obs[o].staleTimeoutId) EXCEPT !.obs[o].staleTimeoutId = NoTimerId]

clearRefetchInterval(t, o) ==
  [clearTimer(t, t.obs[o].refetchIntervalId) EXCEPT !.obs[o].refetchIntervalId = NoTimerId]

\* QueryObserver: updateStaleTimeout()
updateStaleTimeout(t, o) ==
  LET t1 == clearStaleTimeout(t, o)
  IN IF t1.obs[o].currentResult.isStale \/ ~isValidTimeout(t1.obs[o].staleTime)
       THEN t1
       ELSE LET due == now + timeUntilStale(t1.obs[o].currentResult.dataUpdatedAt,
                                            t1.obs[o].staleTime) + 1
            IN [setTimer(t1, "stale", o, due) EXCEPT
                  !.obs[o].staleTimeoutId = [kind |-> "stale", owner |-> o, due |-> due]]

\* QueryObserver: updateRefetchInterval(); an interval has no due time.
tmUpdateRefetchInterval(t, o) ==
  LET t1 == clearRefetchInterval(t, o)
  IN IF ~t1.obs[o].enabled \/ ~isValidTimeout(t1.obs[o].refetchInterval)
       THEN t1
       ELSE [setTimer(t1, "interval", o, 0) EXCEPT
               !.obs[o].refetchIntervalId = [kind |-> "interval", owner |-> o, due |-> 0]]

\* QueryObserver: updateTimers(), clearTimers()
updateTimers(t, o) == tmUpdateRefetchInterval(updateStaleTimeout(t, o), o)

clearTimers(t, o) == clearRefetchInterval(clearStaleTimeout(t, o), o)

\* QueryObserver: updateResult()
tmUpdateResult(t, o) ==
  [t EXCEPT !.obs[o].currentResult =
     getNewResult([state |-> t.state, staleTime |-> t.obs[o].staleTime])]

\* Query.removeObserver(observer): the query function is not cancelable and
\* cacheTime is the default, so scheduleGc() once no observer is left
tmRemoveObserver(t, o) ==
  IF \E i \in 1..Len(t.observers) : t.observers[i] = o
    THEN LET t1 == [t EXCEPT !.observers = Without(@, o)]
         IN IF t1.observers = <<>> THEN tmScheduleGc(t1) ELSE t1
    ELSE t

\* Query.addObserver(observer)
tmAddObserver(t, o) ==
  IF \A i \in 1..Len(t.observers) : t.observers[i] # o
    THEN tmClearGcTimeout([t EXCEPT !.observers = Append(@, o)])
    ELSE t

\* QueryObserver: destroy(), which onUnsubscribe() calls for the last listener
tmDestroy(t, o) ==
  tmRemoveObserver(clearTimers([t EXCEPT !.obs[o].listeners = 0], o), o)

\* The listener of observer o is called.
tmListener(t, o) ==
  LET target == t.obs[o].unsubscribes
  IN IF target # 0 /\ t.obs[target].listeners > 0
       THEN tmDestroy(t, target)
       ELSE t

\* QueryObserver: notify({ listeners: true }): subscribable.listeners.forEach
tmNotify(t, o) == IF t.obs[o].listeners > 0 THEN tmListener(t, o) ELSE t

\* QueryObserver: onQueryUpdate(action)
tmOnQueryUpdate(t, o) ==
  LET prevResult == t.obs[o].currentResult
      t1 == updateTimers(tmUpdateResult(t, o), o)
  IN IF prevResult = t1.obs[o].currentResult THEN t1 ELSE tmNotify(t1, o)

\* Query: dispatch(action): observers.forEach over the array as it is when
\* the loop begins
tmDispatch(t, action) ==
  ForEach(tmOnQueryUpdate, [t EXCEPT !.state = reducer(@, action)], t.observers)

\* Query.fetch(): 'fetch' unless a fetch is under way
tmFetch(t) ==
  IF t.state.isFetching THEN t ELSE tmDispatch(t, Ev("fetch", Undefined, NoError))

\* queryCache.build() of updateQuery(): a new Query when the cache has none;
\* its constructor calls scheduleGc().
tmUpdateQuery(t, o) ==
  IF t.removed
    THEN tmUpdateResult(
           tmScheduleGc([t EXCEPT !.removed = FALSE,
                                  !.state = getDefaultState(KeyOnlyOptions)]), o)
    ELSE t

\* QueryObserver: willFetchOnMount()
tmWillFetchOnMount(t, o) ==
  t.obs[o].enabled /\ isStaleByTime([state |-> t.state], t.obs[o].staleTime)

\* QueryObserver: onSubscribe() of the first listener
tmOnSubscribe(t, o) ==
  LET t1 == tmAddObserver(tmUpdateQuery([t EXCEPT !.obs[o].listeners = 1], o), o)
  IN updateTimers(IF tmWillFetchOnMount(t1, o) THEN tmFetch(t1) ELSE t1, o)

\* The callback of the stale timeout
tmStaleTimeoutFires(t, o) ==
  IF ~t.obs[o].currentResult.isStale THEN tmNotify(tmUpdateResult(t, o), o) ELSE t

\* Query: optionalRemove(), the callback of the GC timeout; cache.remove(query)
\* calls query.destroy(), which clears the GC timeout.
tmOptionalRemove(t) ==
  IF t.observers = <<>> /\ ~t.state.isFetching
    THEN tmClearGcTimeout([t EXCEPT !.removed = TRUE])
    ELSE t

\* makeQueryObserver(client, options): setOptions() builds the Query; no
\* listener yet.
TimedObserver(staleTime, refetchInterval, enabled, unsubscribes) ==
  [ listeners |-> 0, staleTime |-> staleTime, refetchInterval |-> refetchInterval,
    enabled |-> enabled, unsubscribes |-> unsubscribes,
    currentResult |-> getNewResult([state |-> getDefaultState(KeyOnlyOptions),
                                    staleTime |-> staleTime]),
    staleTimeoutId |-> NoTimerId, refetchIntervalId |-> NoTimerId ]

\* The Query as built for the first observer, GC scheduled at time 1.
Timed(obs) ==
  [ state |-> getDefaultState(KeyOnlyOptions), observers |-> <<>>, removed |-> FALSE,
    gcTimeout |-> [kind |-> "gc", owner |-> 0, due |-> 1 + DefaultCacheTime],
    pending |-> <<[kind |-> "gc", owner |-> 0, due |-> 1 + DefaultCacheTime]>>,
    obs |-> obs ]

NoTimed == Timed([o \in TmObs |-> TimedObserver(NoOpt, NoOpt, TRUE, 0)])

\* ------------------------------------------------ a Retryer on its own
\* SpecRetryer drives one Retryer through its whole interface, with the
\* focus and online managers as its environment.

\* The history variable `last`: what made the step, the Query it was about,
\* an argument and a result.
\* What a promise is settled with.
Pending == [status |-> "pending", value |-> Undefined, reason |-> NoError]
Resolved(value) == [status |-> "resolved", value |-> value, reason |-> NoError]
Rejected(reason) == [status |-> "rejected", value |-> Undefined, reason |-> reason]

\* retryer.promise, which Query.fetch() and with it fetchQuery() return
RetryerPromise(r) == [status |-> r.settled, value |-> r.value, reason |-> r.reason]

\* noop() of core/utils
noop(x) == Undefined

\* promise.then(noop)
thenNoop(p) == IF p.status = "resolved" THEN Resolved(noop(p.value)) ELSE p

\* promise.catch(noop)
catchNoop(p) == IF p.status = "rejected" THEN Resolved(noop(p.reason)) ELSE p

\* prefetchQuery without its catch(noop)
prefetchQueryUncaught(p) == thenNoop(p)

\* QueryClient.prefetchQuery(options), from the promise of fetchQuery(options)
prefetchQuery(p) == catchNoop(thenNoop(p))

\* promise: what the step settled the promise of the fetch with (history).
Call(op, q, arg, result) ==
  [op |-> op, q |-> q, arg |-> arg, result |-> result, promise |-> Pending]
NoCall == Call("none", NoQuery, 0, 0)
Other == Call("other", NoQuery, 0, 0)

NoLog == [success |-> 0, error |-> 0, failed |-> 0, pause |-> 0, continue |-> 0]

RECURSIVE LogEvents(_, _)
LogEvents(log, evs) ==
  IF evs = <<>>
    THEN log
    ELSE LogEvents([log EXCEPT ![Head(evs).type] = @ + 1], Tail(evs))

\* focusManager.ts `let focused = false`, onlineManager.ts `let online = false`
InitFocused == FALSE
InitOnline == FALSE

InitRetryerSpec ==
  /\ now = 1
  /\ focused = InitFocused
  /\ online = InitOnline
  /\ \E retry \in 0..MaxRetry, c \in BOOLEAN : rt = createRetryer(retry, c, TRUE)
  /\ rtLog = NoLog
  /\ queries = <<>>
  /\ queriesMap = [h \in Hashes |-> NoQuery]
  /\ qs = [q \in QIds |-> NoQueryObject]
  /\ obsQuery = [o \in ObsIds |-> NoQuery]
  /\ obsOptions = [o \in ObsIds |-> DefaultObserver]
  /\ held = NoQuery
  /\ last = NoCall
  /\ mu = NoMutation
  /\ ob = NoObserver
  /\ follow = FALSE
  /\ mutationCache = NoMutationCache
  /\ tm = NoTimed

RtApply(o) ==
  /\ rt' = o.r
  /\ rtLog' = LogEvents(rtLog, o.ev)

\* The unit of work succeeds.
RtAttemptResolve ==
  /\ rt.phase = "attempt"
  /\ RtApply(RetryerAttemptResolve(rt, 1))
  /\ UNCHANGED <<now, follow, mutationCache, tm, ob, focused, online, cacheVars, mu>>

\* The unit of work fails.
RtAttemptReject ==
  /\ rt.phase = "attempt"
  /\ RtApply(RetryerAttemptReject(rt, FnError))
  /\ UNCHANGED <<now, follow, mutationCache, tm, ob, focused, online, cacheVars, mu>>

\* The retry delay is over.
RtSleepElapsed ==
  /\ rt.phase = "sleep"
  /\ RtApply(RetryerSleepElapsed(rt, focused, online))
  /\ UNCHANGED <<now, follow, mutationCache, tm, ob, focused, online, cacheVars, mu>>

\* retryer.proceed(), as Query.onFocus, Query.onOnline and Mutation.continue call it.
RtProceed ==
  /\ rt.phase = "paused"
  /\ RtApply(RetryerProceed(rt))
  /\ UNCHANGED <<now, follow, mutationCache, tm, ob, focused, online, cacheVars, mu>>

\* retryer.cancel(options)
RtCancel ==
  /\ ~rt.isResolved
  /\ \E revert \in BOOLEAN, silent \in BOOLEAN : RtApply(RetryerCancel(rt, revert, silent))
  /\ UNCHANGED <<now, follow, mutationCache, tm, ob, focused, online, cacheVars, mu>>

\* retryer.cancelRetry()
RtCancelRetry ==
  /\ ~rt.isResolved
  /\ ~rt.isRetryCancelled
  /\ RtApply(RetryerCancelRetry(rt))
  /\ UNCHANGED <<now, follow, mutationCache, tm, ob, focused, online, cacheVars, mu>>

\* The listener a mounted QueryClient registers with both managers: the
\* caches' onFocus / onOnline run only when focused and online.
ClientSignal(isFocused, isOnline) == isFocused /\ isOnline

\* onlineManager.setOnline(val): listeners run when val is true.
RtSetOnline ==
  /\ \E val \in BOOLEAN :
       /\ online' = val
       /\ IF val /\ ClientSignal(focused, val)
            THEN RtApply(RetryerProceed(rt))
            ELSE UNCHANGED <<rt, rtLog>>
  /\ UNCHANGED <<now, follow, mutationCache, tm, ob, focused, cacheVars, mu>>

NextRetryer ==
  \/ RtAttemptResolve
  \/ RtAttemptReject
  \/ RtSleepElapsed
  \/ RtProceed
  \/ RtCancel
  \/ RtCancelRetry
  \/ RtSetOnline

SpecRetryer == InitRetryerSpec /\ [][NextRetryer]_vars

\* A Retryer in an environment that reports nothing: neither manager is ever
\* told of a change of focus or of connectivity.
NextQuiet ==
  \/ RtAttemptResolve
  \/ RtAttemptReject
  \/ RtSleepElapsed
  \/ RtProceed
  \/ RtCancel
  \/ RtCancelRetry

SpecQuiet == InitRetryerSpec /\ [][NextQuiet]_vars

\* focusManager: whether onSubscribe() has registered the handler of the
\* window's 'visibilitychange' and 'focus' events. removeEventListener starts
\* as noop, so `!removeEventListener` is false and setDefaultEventListener()
\* is never called; setEventListener is not part of the manager's interface.
focusListening == FALSE

\* focusManager: `focused` after the window's event. The handler is called
\* with the Event, not with a boolean, so it only calls onFocus().
focusedAfter(isFocused, visible) == isFocused

\* The window fires 'visibilitychange' or 'focus' (visible), or loses focus;
\* a listening focusManager calls the listener of the mounted QueryClient.
WindowEvent ==
  /\ \E visible \in BOOLEAN :
       /\ focused' = focusedAfter(focused, visible)
       /\ last' = Call("window", NoQuery, IF visible THEN 1 ELSE 0, 0)
       /\ IF focusListening /\ ClientSignal(focused', online)
            THEN RtApply(RetryerProceed(rt))
            ELSE UNCHANGED <<rt, rtLog>>
  /\ UNCHANGED <<now, follow, mutationCache, tm, ob, online, queries, queriesMap, qs, obsQuery, obsOptions, held, mu>>

\* A Retryer with the signals of the environment, as a mounted QueryClient
\* receives them.
NextSignals ==
  \/ RtAttemptResolve
  \/ RtAttemptReject
  \/ RtSleepElapsed
  \/ RtCancelRetry
  \/ RtSetOnline
  \/ WindowEvent

SpecSignals == InitRetryerSpec /\ [][NextSignals]_vars

\* ---------------------------------------------------------- QueryObserver
\* An observer of the model exists while it is subscribed; obsQuery[o] is its
\* currentQuery (NoQuery otherwise). Its options are ObserverOptions.

\* QueryObserver.updateQuery() of a subscribed observer
\* updateQuery(): the query the cache built replaces prevQuery
observeBuilt(b, prev, o) ==
  IF b.q = prev \/ b.q = NoQuery
    THEN b.w
    ELSE addObserver(removeObserver([b.w EXCEPT !.obsQuery[o] = b.q], prev, o), b.q, o)

updateQuery(w, o) ==
  observeBuilt(cacheBuild(w, w.qs[w.obsQuery[o]].queryHash, ObserverOptions),
               w.obsQuery[o], o)

\* executeFetch: currentQuery.fetch(options, fetchOptions)
fetchCurrent(w, o, cancelRefetch) ==
  IF w.ok THEN queryFetch(w, w.obsQuery[o], ObserverOptions.cacheTime, cancelRefetch)
          ELSE w

\* QueryObserver.executeFetch(fetchOptions)
executeFetch(w, o, cancelRefetch) == fetchCurrent(updateQuery(w, o), o, cancelRefetch)

\* willFetch without `options.enabled !== false`
willFetchDisabled(w, o) ==
  isStaleByTime(w.qs[w.obsQuery[o]], ObserverOptions.staleTime)

\* willFetchOnMount(), willFetchOnWindowFocus(), willFetchOnReconnect() and
\* willFetchOptionally() of an observer with otherwise default options: not
\* disabled, and no data yet or stale data.
willFetch(w, o) ==
  /\ w.obsOptions[o].enabled
  /\ isStaleByTime(w.qs[w.obsQuery[o]], ObserverOptions.staleTime)

\* updateRefetchInterval(), not on a server
updateRefetchInterval(w, o) ==
  [w EXCEPT !.obsOptions[o].intervalId =
     w.obsOptions[o].enabled /\ w.obsOptions[o].refetchInterval]

\* optionalFetch()
optionalFetch(w, o) == IF willFetch(w, o) THEN executeFetch(w, o, FALSE) ELSE w

\* updateRefetchInterval() once what came before it has run
thenRefetchInterval(w, o) == IF w.ok THEN updateRefetchInterval(w, o) ELSE w

\* onSubscribe(): addObserver, the fetch on mount, the timers
onSubscribe(b, o) ==
  IF b.q = NoQuery
    THEN b.w
    ELSE thenRefetchInterval(
           optionalFetch(addObserver([b.w EXCEPT !.obsQuery[o] = b.q], b.q, o), o), o)

\* makeQueryObserver(client, options) and the first subscribe(listener)
observerSubscribe(w, o, h) == onSubscribe(cacheBuild(w, h, ObserverOptions), o)

\* The last unsubscribe(): observer.destroy(); the observer is dropped.
observerUnsubscribe(w, o) ==
  [removeObserver(w, w.obsQuery[o], o) EXCEPT !.obsQuery[o] = NoQuery,
                                              !.obsOptions[o] = DefaultObserver]

\* setOptions(): what follows updateQuery(), the optional fetch and the
\* timers when the options they depend on changed
optionsChanged(w, o, prevQuery, prevOptions) ==
  LET options == w.obsOptions[o]
      didUpdateQuery == w.obsQuery[o] # prevQuery
      fetches == w.ok /\ (didUpdateQuery \/ (options.enabled /\ ~prevOptions.enabled))
      updates ==
        \/ didUpdateQuery
        \/ options.enabled # prevOptions.enabled
        \/ options.refetchInterval # prevOptions.refetchInterval
  IN IF updates
       THEN thenRefetchInterval(IF fetches THEN optionalFetch(w, o) ELSE w, o)
       ELSE IF fetches THEN optionalFetch(w, o) ELSE w

\* observer.setOptions(newOptions) of a subscribed observer, with the same
\* query key
observerSetOptions(w, o, enabled, refetchInterval) ==
  optionsChanged(updateQuery([w EXCEPT !.obsOptions[o].enabled = enabled,
                                       !.obsOptions[o].refetchInterval = refetchInterval],
                             o),
                 o, w.obsQuery[o], w.obsOptions[o])

\* The callback of setInterval in updateRefetchInterval(), with
\* refetchIntervalInBackground
intervalRefetch(w, o) == executeFetch(w, o, FALSE)

\* retryer?.proceed() of the Query's current Retryer
queryProceed(w, q) ==
  LET n == Len(w.qs[q].retryers)
  IN IF ~w.ok \/ n = 0
       THEN w
       ELSE retryerCalled(w, q, RetryerProceed(w.qs[q].retryers[n]))

\* Query.onFocus() and Query.onOnline()
queryOnFocus(w, q) ==
  LET Willing(o) == willFetch(w, o)
      found == SelectSeq(w.qs[q].observers, Willing)
  IN queryProceed(IF found # <<>> THEN executeFetch(w, Head(found), FALSE) ELSE w, q)

\* Query.reset() that stops at destroy()
queryResetKeepsState(w, q) == queryCancel(clearGcTimeout(w, q), q, FALSE, TRUE)

\* Query.reset(): destroy(), then setState(initialState)
queryReset(w, q) ==
  setState(queryCancel(clearGcTimeout(w, q), q, FALSE, TRUE), q, w.qs[q].initialState)

\* QueryClient.resetQueries(): reset all, refetch the active ones
resetQueries(w) == refetchQueries(ForEach(queryReset, w, w.queries), TRUE)

\* QueryCache.onFocus() and QueryCache.onOnline()
cacheOnFocus(w) == ForEach(queryOnFocus, w, w.queries)

\* ------------------------------------------------------------ Spec
\* The QueryClient with its QueryCache, driven through the public interface,
\* the pending attempts, delays and timers, and the clock.

World == [queries |-> queries, queriesMap |-> queriesMap, qs |-> qs,
          obsQuery |-> obsQuery, obsOptions |-> obsOptions, held |-> held, ok |-> TRUE]

Range(seq) == {seq[i] : i \in 1..Len(seq)}

\* A Retryer with nothing pending: every call on it returns at once, whatever
\* its other fields are.
Stopped == [InitRetryer(0, FALSE, FALSE) EXCEPT !.isResolved = TRUE]

\* The Retryers of a Query that matter: the earlier ones with something
\* pending, and `retryer`, as Stopped when it has nothing pending.
Pruned(retryers) ==
  IF retryers = <<>>
    THEN retryers
    ELSE LET n == Len(retryers)
         IN Live(SubSeq(retryers, 1, n - 1)) \o
            <<IF retryers[n].phase = "stopped" THEN Stopped ELSE retryers[n]>>

\* A settled Retryer whose unit of work is pending: the reactions to its
\* completion find the Retryer resolved and return.
Orphan(r) == r.isResolved /\ r.phase = "attempt"

\* Unless they are followed, orphans count as Retryers with nothing pending.
Prune(retryers) ==
  IF follow
    THEN Pruned(retryers)
    ELSE Pruned([i \in 1..Len(retryers) |->
                   IF Orphan(retryers[i])
                     THEN [retryers[i] EXCEPT !.phase = "stopped"]
                     ELSE retryers[i]])

\* The history of a fetch ends with its Retryer.
Forget(qr) ==
  IF Live(qr.retryers) = <<>>
    THEN [qr EXCEPT !.joined = FALSE, !.before = NoQueryObject.before]
    ELSE qr

\* A Query object nothing refers to any more: not registered, not observed,
\* not held by the application, and none of its Retryers has anything pending.
Unreachable(w, q) ==
  /\ w.qs[q].created
  /\ q \notin Range(w.queries)
  /\ \A h \in Hashes : w.queriesMap[h] # q
  /\ \A o \in ObsIds : w.obsQuery[o] # q
  /\ w.qs[q].observers = <<>>
  /\ w.held # q
  /\ Live(w.qs[q].retryers) = <<>>

\* The heap after the handler: unreachable objects are gone.
Collect(w) ==
  LET w1 == [w EXCEPT !.qs = [q \in QIds |->
                                Forget([w.qs[q] EXCEPT !.retryers = Prune(@)])]]
  IN [w1 EXCEPT !.qs = [q \in QIds |->
                          IF Unreachable(w1, q) THEN NoQueryObject ELSE w1.qs[q]]]

Bounded(w) ==
  \A q \in QIds :
    /\ Len(w.qs[q].retryers) <= MaxRetryers
    /\ w.qs[q].state.dataUpdateCount <= MaxUpdates
    /\ w.qs[q].state.errorUpdateCount <= MaxUpdates

Commit(w, call) ==
  /\ w.ok
  /\ Bounded(Collect(w))
  /\ queries' = w.queries
  /\ queriesMap' = w.queriesMap
  /\ qs' = Collect(w).qs
  /\ obsQuery' = w.obsQuery
  /\ obsOptions' = w.obsOptions
  /\ held' = w.held
  /\ last' = call

Created == {q \in QIds : qs[q].created}

Init ==
  /\ now = 1
  /\ focused = InitFocused
  /\ online = InitOnline
  /\ rt = InitRetryer(0, FALSE, FALSE)
  /\ rtLog = NoLog
  /\ queries = <<>>
  /\ queriesMap = [h \in Hashes |-> NoQuery]
  /\ qs = [q \in QIds |-> NoQueryObject]
  /\ obsQuery = [o \in ObsIds |-> NoQuery]
  /\ obsOptions = [o \in ObsIds |-> DefaultObserver]
  /\ held = NoQuery
  /\ last = NoCall
  /\ mu = NoMutation
  /\ ob = NoObserver
  /\ follow = FALSE
  /\ mutationCache = NoMutationCache
  /\ tm = NoTimed

\* The same, with the settled Retryers of the Queries kept until their unit
\* of work has completed.
InitFollowing ==
  /\ now = 1
  /\ focused = InitFocused
  /\ online = InitOnline
  /\ rt = InitRetryer(0, FALSE, FALSE)
  /\ rtLog = NoLog
  /\ queries = <<>>
  /\ queriesMap = [h \in Hashes |-> NoQuery]
  /\ qs = [q \in QIds |-> NoQueryObject]
  /\ obsQuery = [o \in ObsIds |-> NoQuery]
  /\ obsOptions = [o \in ObsIds |-> DefaultObserver]
  /\ held = NoQuery
  /\ last = NoCall
  /\ mu = NoMutation
  /\ ob = NoObserver
  /\ follow = TRUE
  /\ mutationCache = NoMutationCache
  /\ tm = NoTimed

\* A millisecond passes.
Tick ==
  /\ now < MaxTime
  /\ now' = now + 1
  /\ last' = Other
  /\ UNCHANGED <<envVars, rtVars, queries, queriesMap, qs, obsQuery, obsOptions, held, mu, ob, follow, mutationCache, tm>>

\* The staleTime and cacheTime options a caller passes.
StaleTimes == {NoOpt, 1}
CacheTimes == {NoOpt, 0, Infinity}

\* queryClient.fetchQuery({ queryKey, queryFn, staleTime, cacheTime })
FetchQueryWith(staleTimes, cacheTimes) ==
  /\ \E h \in Hashes, staleTime \in staleTimes, cacheTime \in cacheTimes :
       LET f == fetchQuery(World, h,
                           Options(NoOpt, cacheTime, staleTime, TRUE, FALSE, Undefined))
       IN Commit(f.w, [Call("fetchQuery", f.q, staleTime, f.result)
                         EXCEPT !.promise = IF f.result = FetchPromise
                                              THEN Pending
                                              ELSE Resolved(f.result)])
  /\ UNCHANGED <<now, follow, mutationCache, tm, ob, envVars, rtVars, mu>>

FetchQuery == FetchQueryWith(StaleTimes, CacheTimes)

\* fetchQuery of callers that leave cacheTime alone
FetchQueryDefault == FetchQueryWith(StaleTimes, {NoOpt})

\* fetchQuery of callers that leave staleTime alone
FetchQueryStale == FetchQueryWith({NoOpt}, CacheTimes)

\* queryClient.setQueryData(queryKey, data)
SetQueryData ==
  /\ \E h \in Hashes, d \in DataValues : Commit(setQueryData(World, h, d), Other)
  /\ UNCHANGED <<now, follow, mutationCache, tm, ob, envVars, rtVars, mu>>

\* The Queries whose state differs between two worlds.
StateChanged(w, x) == {q \in QIds : w.qs[q].state # x.qs[q].state}

\* queryClient.cancelQueries(undefined, { revert, silent }); without options
\* revert is true and silent is not set. A silent call is recorded with the
\* number of Queries whose state it changed.
CancelQueries ==
  /\ \E q \in Created : Live(qs[q].retryers) # <<>>
  /\ \E revert \in BOOLEAN, silent \in BOOLEAN :
       Commit(cancelQueries(World, revert, silent),
              IF silent
                THEN Call("cancelSilently", NoQuery,
                          Cardinality(StateChanged(World, cancelQueries(World, revert, TRUE))),
                          0)
                ELSE IF revert THEN Call("cancelQueries", NoQuery, 0, 0) ELSE Other)
  /\ UNCHANGED <<now, follow, mutationCache, tm, ob, envVars, rtVars, mu>>

\* queryClient.invalidateQueries()
InvalidateQueries ==
  /\ queries # <<>>
  /\ Commit(invalidateQueries(World), Call("invalidateQueries", NoQuery, 0, 0))
  /\ UNCHANGED <<now, follow, mutationCache, tm, ob, envVars, rtVars, mu>>

\* queryClient.refetchQueries()
RefetchQueries ==
  /\ queries # <<>>
  /\ Commit(refetchQueries(World, FALSE), Call("refetchQueries", NoQuery, 0, 0))
  /\ UNCHANGED <<now, follow, mutationCache, tm, ob, envVars, rtVars, mu>>

\* queryClient.clear(), queryClient.removeQueries()
CacheClear ==
  /\ queries # <<>>
  /\ Commit(cacheClear(World), Call("remove", NoQuery, 0, 0))
  /\ UNCHANGED <<now, follow, mutationCache, tm, ob, envVars, rtVars, mu>>

\* queryCache.onFocus(), queryCache.onOnline()
CacheOnFocus ==
  /\ queries # <<>>
  /\ Commit(cacheOnFocus(World), Other)
  /\ UNCHANGED <<now, follow, mutationCache, tm, ob, envVars, rtVars, mu>>

\* The timer of scheduleGc() fires.
GcTimeout ==
  /\ \E q \in Created :
       /\ qs[q].gcTimeout # NoTimer
       /\ now >= qs[q].gcTimeout
       /\ Commit(optionalRemove(clearGcTimeout(World, q), q), Other)
  /\ UNCHANGED <<now, follow, mutationCache, tm, ob, envVars, rtVars, mu>>

\* The first subscribe() of a new QueryObserver.
ObserverSubscribe ==
  /\ \E o \in ObsIds, h \in Hashes :
       /\ obsQuery[o] = NoQuery
       /\ Commit(observerSubscribe(World, o, h), Other)
  /\ UNCHANGED <<now, follow, mutationCache, tm, ob, envVars, rtVars, mu>>

\* The last unsubscribe of a QueryObserver.
ObserverUnsubscribe ==
  /\ \E o \in ObsIds :
       /\ obsQuery[o] # NoQuery
       /\ Commit(observerUnsubscribe(World, o), Other)
  /\ UNCHANGED <<now, follow, mutationCache, tm, ob, envVars, rtVars, mu>>

\* observer.refetch(), observer.fetch(): executeFetch with or without cancelRefetch
ObserverRefetch ==
  /\ \E o \in ObsIds, cancelRefetch \in BOOLEAN :
       /\ obsQuery[o] # NoQuery
       /\ Commit(executeFetch(World, o, cancelRefetch), Call("refetch", obsQuery[o], 0, 0))
  /\ UNCHANGED <<now, follow, mutationCache, tm, ob, envVars, rtVars, mu>>

\* Whether the step of a Retryer settled the fetch: the unit of work gave
\* its data, or the fetch failed with the error of the unit of work.
Settles(r, o) ==
  /\ ~r.isResolved
  /\ o.r.isResolved
  /\ (o.r.settled = "resolved" \/ o.r.reason = FnError)

\* One Retryer of one Query takes a step. The step of a Retryer that had
\* settled before is recorded as "late", with the calls of the query function
\* it made.
RetryerStep(q, i, o) ==
  Commit(applyEvents([World EXCEPT !.qs[q].retryers[i] = o.r], q, o.ev),
         IF Settles(qs[q].retryers[i], o)
           THEN [Call("settle", q, qs[q].cacheTime, Len(qs[q].observers))
                   EXCEPT !.promise = RetryerPromise(o.r)]
           ELSE IF qs[q].retryers[i].isResolved
             THEN Call("late", q, o.r.fnCalls - qs[q].retryers[i].fnCalls, 0)
             ELSE Other)

\* The promise of the fetch function is fulfilled.
AttemptResolve ==
  /\ \E q \in Created : \E i \in 1..Len(qs[q].retryers), d \in DataValues :
       /\ qs[q].retryers[i].phase = "attempt"
       /\ qs[q].retryers[i].hasFn
       /\ RetryerStep(q, i, RetryerAttemptResolve(qs[q].retryers[i], d))
  /\ UNCHANGED <<now, follow, mutationCache, tm, ob, envVars, rtVars, mu>>

\* The promise of the fetch function is rejected.
AttemptReject ==
  /\ \E q \in Created : \E i \in 1..Len(qs[q].retryers) :
       /\ qs[q].retryers[i].phase = "attempt"
       /\ RetryerStep(q, i, RetryerAttemptReject(qs[q].retryers[i], FnError))
  /\ UNCHANGED <<now, follow, mutationCache, tm, ob, envVars, rtVars, mu>>

\* The retry delay of a Retryer is over.
SleepElapsed ==
  /\ \E q \in Created : \E i \in 1..Len(qs[q].retryers) :
       /\ qs[q].retryers[i].phase = "sleep"
       /\ RetryerStep(q, i, RetryerSleepElapsed(qs[q].retryers[i], focused, online))
  /\ UNCHANGED <<now, follow, mutationCache, tm, ob, envVars, rtVars, mu>>

\* queryCache.find(): the application keeps a reference to a registered
\* Query, or drops the one it kept.
Hold ==
  /\ \E q \in Range(queries) \cup {NoQuery} :
       /\ q # held
       /\ Commit([World EXCEPT !.held = q], Other)
  /\ UNCHANGED <<now, follow, mutationCache, tm, ob, envVars, rtVars, mu>>

\* queryCache.add(query) with the Query the application holds
CacheAdd ==
  /\ held # NoQuery
  /\ Commit(cacheAdd(World, held), Call("add", held, 0, 0))
  /\ UNCHANGED <<now, follow, mutationCache, tm, ob, envVars, rtVars, mu>>

\* queryCache.remove(query) with the Query the application holds
CacheRemove ==
  /\ held # NoQuery
  /\ Commit(cacheRemove(World, held), Call("remove", held, 0, 0))
  /\ UNCHANGED <<now, follow, mutationCache, tm, ob, envVars, rtVars, mu>>

\* The whole interface of the model.
Next ==
  \/ Tick
  \/ FetchQuery
  \/ SetQueryData
  \/ CancelQueries
  \/ InvalidateQueries
  \/ RefetchQueries
  \/ Hold
  \/ CacheAdd
  \/ CacheRemove
  \/ CacheClear
  \/ CacheOnFocus
  \/ GcTimeout
  \/ ObserverSubscribe
  \/ ObserverUnsubscribe
  \/ ObserverRefetch
  \/ AttemptResolve
  \/ AttemptReject
  \/ SleepElapsed

Spec == Init /\ [][Next]_vars

\* Fetching: fetchQuery against setQueryData, invalidation, refetch and
\* cancellation, with the clock for staleness.
NextFetch ==
  \/ Tick
  \/ FetchQueryDefault
  \/ SetQueryData
  \/ CancelQueries
  \/ InvalidateQueries
  \/ RefetchQueries
  \/ AttemptResolve
  \/ AttemptReject
  \/ SleepElapsed

SpecFetch == Init /\ [][NextFetch]_vars

\* Retention: cacheTime, the garbage-collection timer and observers.
NextGc ==
  \/ Tick
  \/ FetchQueryStale
  \/ CacheClear
  \/ GcTimeout
  \/ ObserverSubscribe
  \/ ObserverUnsubscribe
  \/ AttemptResolve
  \/ AttemptReject

SpecGc == Init /\ [][NextGc]_vars

\* The registry: build, add, remove and clear, with the removals the Query
\* itself asks for.
NextCache ==
  \/ FetchQueryStale
  \/ Hold
  \/ CacheAdd
  \/ CacheRemove
  \/ CacheClear
  \/ AttemptResolve
  \/ AttemptReject

SpecCache == Init /\ [][NextCache]_vars

\* makeQueryObserver(client, { enabled, refetchInterval, ... }) and the first
\* subscribe(listener)
ObserverSubscribeWith ==
  /\ \E o \in ObsIds, h \in Hashes, enabled \in BOOLEAN, refetchInterval \in BOOLEAN :
       /\ obsQuery[o] = NoQuery
       /\ Commit(observerSubscribe([World EXCEPT !.obsOptions[o] =
                                      ObserverWith(enabled, refetchInterval)], o, h),
                 Other)
  /\ UNCHANGED <<now, follow, mutationCache, tm, ob, envVars, rtVars, mu>>

\* observer.setOptions({ enabled, refetchInterval, ... }) with other values
ObserverSetOptions ==
  /\ \E o \in ObsIds, enabled \in BOOLEAN, refetchInterval \in BOOLEAN :
       /\ obsQuery[o] # NoQuery
       /\ <<enabled, refetchInterval>> #
            <<obsOptions[o].enabled, obsOptions[o].refetchInterval>>
       /\ Commit(observerSetOptions(World, o, enabled, refetchInterval), Other)
  /\ UNCHANGED <<now, follow, mutationCache, tm, ob, envVars, rtVars, mu>>

\* The refetch interval of an observer is over.
RefetchInterval ==
  /\ \E o \in ObsIds :
       /\ obsQuery[o] # NoQuery
       /\ obsOptions[o].intervalId
       /\ Commit(intervalRefetch(World, o), Other)
  /\ UNCHANGED <<now, follow, mutationCache, tm, ob, envVars, rtVars, mu>>

\* queryClient.resetQueries()
ResetQueries ==
  /\ queries # <<>>
  /\ Commit(resetQueries(World),
            Call("resetQueries", NoQuery,
                 Cardinality({q \in Range(queries) : qs[q].state # qs[q].initialState}), 0))
  /\ UNCHANGED <<now, follow, mutationCache, tm, ob, envVars, rtVars, mu>>

\* Observers that may be disabled, against everything that fetches.
NextEnabled ==
  \/ ObserverSubscribeWith
  \/ ObserverSetOptions
  \/ ObserverUnsubscribe
  \/ ObserverRefetch
  \/ RefetchInterval
  \/ CacheOnFocus
  \/ InvalidateQueries
  \/ ResetQueries
  \/ RefetchQueries
  \/ FetchQueryDefault
  \/ AttemptResolve
  \/ AttemptReject

SpecEnabled == Init /\ [][NextEnabled]_vars

\* Active and inactive queries, fetched, cancelled and invalidated.
NextInvalidate ==
  \/ ObserverSubscribeWith
  \/ ObserverUnsubscribe
  \/ FetchQueryDefault
  \/ CancelQueries
  \/ InvalidateQueries
  \/ AttemptResolve
  \/ AttemptReject

SpecInvalidate == Init /\ [][NextInvalidate]_vars

\* queryClient.fetchQuery({ queryKey, queryFn, initialData })
FetchQueryInitial ==
  /\ \E h \in Hashes, initialData \in DataValues \cup {Undefined} :
       LET f == fetchQuery(World, h, Options(NoOpt, NoOpt, NoOpt, TRUE, FALSE, initialData))
       IN Commit(f.w, Call("fetchQuery", f.q, NoOpt, f.result))
  /\ UNCHANGED <<now, follow, mutationCache, tm, ob, envVars, rtVars, mu>>

\* Queries with and without initial data, fetched, written, observed, reset.
NextReset ==
  \/ Tick
  \/ FetchQueryInitial
  \/ SetQueryData
  \/ ObserverSubscribeWith
  \/ ResetQueries
  \/ AttemptResolve
  \/ AttemptReject

SpecReset == Init /\ [][NextReset]_vars

\* queryClient.fetchQuery({ queryKey, queryFn, retry: 1, cacheTime }), with a
\* query function whose promise has a cancel method or has none
FetchQueryRetry ==
  /\ \E h \in Hashes, cacheTime \in {NoOpt, 0}, fnCancelable \in BOOLEAN :
       LET f == fetchQuery(World, h,
                           Options(1, cacheTime, NoOpt, TRUE, fnCancelable, Undefined))
       IN Commit(f.w, Call("fetchQuery", f.q, NoOpt, f.result))
  /\ UNCHANGED <<now, follow, mutationCache, tm, ob, envVars, rtVars, mu>>

\* Observers that attach to a fetch with a retry left and detach from it.
NextDetach ==
  \/ FetchQueryRetry
  \/ ObserverSubscribe
  \/ ObserverUnsubscribe
  \/ CacheOnFocus
  \/ AttemptResolve
  \/ AttemptReject
  \/ SleepElapsed

SpecDetach == Init /\ [][NextDetach]_vars

\* Cancelled and superseded fetches whose unit of work completes afterwards.
NextFollowing ==
  \/ FetchQueryDefault
  \/ SetQueryData
  \/ ObserverSubscribe
  \/ ObserverRefetch
  \/ CancelQueries
  \/ AttemptResolve
  \/ AttemptReject

SpecFollowing == InitFollowing /\ [][NextFollowing]_vars

\* ------------------------------------------------------- SpecMutation

\* execute() calls of one Mutation.
MaxExecutions == 2

\* What options.onMutate returns, what options.mutationFn resolves with, and
\* options.retry.
Contexts == {Undefined, 2}
MutData == 1
MutRetries == {NoOpt, 1}

InitBesidesMutation ==
  /\ now = 1
  /\ focused = InitFocused
  /\ online = InitOnline
  /\ rt = InitRetryer(0, FALSE, FALSE)
  /\ rtLog = NoLog
  /\ queries = <<>>
  /\ queriesMap = [h \in Hashes |-> NoQuery]
  /\ qs = [q \in QIds |-> NoQueryObject]
  /\ obsQuery = [o \in ObsIds |-> NoQuery]
  /\ obsOptions = [o \in ObsIds |-> DefaultObserver]
  /\ held = NoQuery
  /\ last = NoCall
  /\ ob = NoObserver
  /\ follow = FALSE

InitMutation ==
  /\ InitBesidesMutation
  /\ mutationCache = NoMutationCache
  /\ tm = NoTimed
  /\ \E retry \in MutRetries :
       \/ mu = createMutation(retry, TRUE, mutationDefaultState)
       \/ \E isPaused \in BOOLEAN : mu = createMutation(retry, TRUE, RestoredState(isPaused))

\* A Mutation the MutationCache has just built.
InitMutationCache ==
  /\ InitBesidesMutation
  /\ mutationCache = NoMutationCache
  /\ tm = NoTimed
  /\ \E retry \in MutRetries : mu = mutationCacheBuild(retry, TRUE)

MutRetryers == 1..Len(mu.retryers)
MutChains == 1..Len(mu.chains)

\* mutation.execute(), called when no earlier call is still under way
MutExecute ==
  /\ Len(mu.chains) < MaxExecutions
  /\ mu.resumes = 0
  /\ \A c \in MutChains : mu.chains[c].pos = "done"
  /\ \A i \in MutRetryers : mu.retryers[i].phase = "stopped"
  /\ mu' = mutationExecute(mu)
  /\ UNCHANGED <<now, follow, mutationCache, tm, ob, envVars, rtVars, cacheVars>>

\* options.onMutate has returned.
MutOnMutate ==
  /\ \E c \in MutChains, context \in Contexts :
       /\ mu.chains[c].pos = "onMutate"
       /\ mu' = mutationOnMutate(mu, c, context)
       /\ UNCHANGED <<now, follow, mutationCache, tm, ob, envVars, rtVars, cacheVars>>

\* The reaction that calls executeMutation().
MutStart ==
  /\ \E c \in MutChains :
       /\ mu.chains[c].pos = "start"
       /\ mu' = executeMutation(mu, c)
       /\ UNCHANGED <<now, follow, mutationCache, tm, ob, envVars, rtVars, cacheVars>>

\* The promise of the mutation function is fulfilled.
MutAttemptResolve ==
  /\ mu.hasFn
  /\ \E i \in MutRetryers :
       /\ mu.retryers[i].phase = "attempt"
       /\ mu' = mutationApply(mu, i, RetryerAttemptResolve(mu.retryers[i], MutData))
  /\ UNCHANGED <<now, follow, mutationCache, tm, ob, envVars, rtVars, cacheVars>>

\* The promise of the mutation function is rejected.
MutAttemptReject ==
  /\ \E i \in MutRetryers :
       /\ mu.retryers[i].phase = "attempt"
       /\ mu' = mutationApply(mu, i, RetryerAttemptReject(mu.retryers[i], FnError))
  /\ UNCHANGED <<now, follow, mutationCache, tm, ob, envVars, rtVars, cacheVars>>

\* The retry delay is over.
MutSleepElapsed ==
  /\ \E i \in MutRetryers :
       /\ mu.retryers[i].phase = "sleep"
       /\ mu' = mutationApply(mu, i, RetryerSleepElapsed(mu.retryers[i], focused, online))
  /\ UNCHANGED <<now, follow, mutationCache, tm, ob, envVars, rtVars, cacheVars>>

\* The next reaction of a chain whose Retryer has settled.
MutReaction ==
  /\ \E c \in MutChains :
       /\ mu.chains[c].pos \in {"onSuccess", "onError", "onSettled", "dispatch"}
       /\ mu' = mutationReaction(mu, c)
       /\ UNCHANGED <<now, follow, mutationCache, tm, ob, envVars, rtVars, cacheVars>>

\* mutation.cancel()
MutCancel ==
  /\ mu.retryers # <<>>
  /\ ~mu.retryers[Len(mu.retryers)].isResolved
  /\ mu' = mutationCancel(mu)
  /\ UNCHANGED <<now, follow, mutationCache, tm, ob, envVars, rtVars, cacheVars>>

\* mutationCache.resumePausedMutations()
MutResume ==
  /\ mu.state.isPaused
  /\ mu.resumes + Len(mu.chains) < MaxExecutions
  /\ mu' = resumePausedMutations(mu)
  /\ UNCHANGED <<now, follow, mutationCache, tm, ob, envVars, rtVars, cacheVars>>

\* The reaction resumePausedMutations() queued: mutation.continue()
MutContinue ==
  /\ mu.resumes > 0
  /\ mu' = mutationContinue([mu EXCEPT !.resumes = @ - 1])
  /\ UNCHANGED <<now, follow, mutationCache, tm, ob, envVars, rtVars, cacheVars>>

\* onlineManager.setOnline(val): the listener of a mounted QueryClient calls
\* mutationCache.onOnline() when focused and online.
MutSetOnline ==
  /\ \E val \in BOOLEAN :
       /\ online' = val
       /\ val # online
       /\ IF val /\ ClientSignal(focused, val)
            THEN mu' = resumePausedMutations(mu)
            ELSE UNCHANGED mu
  /\ UNCHANGED <<now, follow, mutationCache, tm, ob, focused, rtVars, cacheVars>>

\* A callback of the options throws.
MutThrows ==
  /\ \E c \in MutChains :
       /\ mu.chains[c].pos \in {"onMutate", "onSuccess", "onError", "onSettled"}
       /\ mu' = mutationThrows(mu, c)
       /\ UNCHANGED <<now, follow, mutationCache, tm, ob, envVars, rtVars, cacheVars>>

NextMutation ==
  \/ MutExecute
  \/ MutOnMutate
  \/ MutStart
  \/ MutAttemptResolve
  \/ MutAttemptReject
  \/ MutSleepElapsed
  \/ MutReaction
  \/ MutCancel
  \/ MutResume
  \/ MutContinue

SpecMutation == InitMutation /\ [][NextMutation]_vars

\* execute() with callbacks that return and callbacks that throw.
NextCallbacks ==
  \/ MutExecute
  \/ MutOnMutate
  \/ MutStart
  \/ MutAttemptResolve
  \/ MutAttemptReject
  \/ MutReaction
  \/ MutThrows

SpecCallbacks == InitMutation /\ [][NextCallbacks]_vars

\* mutationObserver.mutate(): the observer attaches and the Mutation starts
MutMutate ==
  /\ mu.chains = <<>>
  /\ mu.observers = 0
  /\ mu.listed
  /\ mu' = observerMutate(mu)
  /\ UNCHANGED <<now, follow, mutationCache, tm, ob, envVars, rtVars, cacheVars>>

\* The observer's last listener unsubscribes, or it mutates again and so
\* leaves this Mutation.
MutRemoveObserver ==
  /\ mu.observers > 0
  /\ mu' = mutationRemoveObserver(mu)
  /\ UNCHANGED <<now, follow, mutationCache, tm, ob, envVars, rtVars, cacheVars>>

\* mutationCache.clear()
MutCacheClear ==
  /\ mu.listed
  /\ mu' = mutationCacheRemove(mu)
  /\ UNCHANGED <<now, follow, mutationCache, tm, ob, envVars, rtVars, cacheVars>>

\* A Mutation of the MutationCache, started through the client or through an
\* observer, until it has settled and after.
NextMutationCache ==
  \/ MutExecute
  \/ MutMutate
  \/ MutOnMutate
  \/ MutStart
  \/ MutAttemptResolve
  \/ MutAttemptReject
  \/ MutSleepElapsed
  \/ MutResume
  \/ MutContinue
  \/ MutReaction
  \/ MutRemoveObserver
  \/ MutCacheClear

SpecMutationCache == InitMutationCache /\ [][NextMutationCache]_vars

\* ------------------------------------------------------- SpecObserver

\* Writes of data or of an error per Query.
MaxResults == 2

InitObserver ==
  /\ now = 1
  /\ focused = InitFocused
  /\ online = InitOnline
  /\ rt = InitRetryer(0, FALSE, FALSE)
  /\ rtLog = NoLog
  /\ queries = <<>>
  /\ queriesMap = [h \in Hashes |-> NoQuery]
  /\ qs = [q \in QIds |-> NoQueryObject]
  /\ obsQuery = [o \in ObsIds |-> NoQuery]
  /\ obsOptions = [o \in ObsIds |-> DefaultObserver]
  /\ held = NoQuery
  /\ last = NoCall
  /\ mu = NoMutation
  /\ follow = FALSE
  /\ mutationCache = NoMutationCache
  /\ tm = NoTimed
  /\ \E factory \in {"make", "create"}, batched \in BOOLEAN, filtered \in BOOLEAN,
        enabled \in BOOLEAN :
       ob = Subscribed(factory, batched, filtered, enabled)

\* A handler starts: the history of the step before is dropped.
Handler(o) == [o EXCEPT !.calls = <<>>]

ObApply(o) ==
  /\ o.state.dataUpdateCount <= MaxResults
  /\ o.state.errorUpdateCount <= MaxResults
  /\ o.state.fetchFailureCount <= MaxResults
  /\ ob' = o
  /\ UNCHANGED <<now, follow, mutationCache, tm, envVars, rtVars, cacheVars, mu>>

\* queryClient.setQueryData(key, data)
ObSetQueryData ==
  /\ ob.transactions = 0
  /\ \E d \in DataValues : ObApply(dispatchNotify(Handler(ob), Ev("success", d, NoError)))

\* observer.refetch()
ObRefetch ==
  /\ ~ob.state.isFetching
  /\ ObApply(observedFetch(Handler(ob)))

\* The fetch succeeds: onSuccess, setData.
ObFetchSuccess ==
  /\ ob.state.isFetching
  /\ \E d \in DataValues : ObApply(dispatchNotify(Handler(ob), Ev("success", d, NoError)))

\* The fetch fails: onError.
ObFetchError ==
  /\ ob.state.isFetching
  /\ ObApply(dispatchNotify(Handler(ob), Ev("error", Undefined, FnError)))

\* queryClient.invalidateQueries()
ObInvalidateQueries ==
  /\ ~ob.state.isFetching
  /\ ObApply(observedInvalidate(Handler(ob)))

\* A microtask of the notifyManager runs.
ObMicrotask ==
  /\ ob.microtasks # <<>>
  /\ ObApply(runMicrotask(Handler(ob)))

NextObserver ==
  \/ ObSetQueryData
  \/ ObRefetch
  \/ ObFetchSuccess
  \/ ObFetchError
  \/ ObInvalidateQueries
  \/ ObMicrotask

SpecObserver == InitObserver /\ [][NextObserver]_vars

\* ------------------------------------------------------------- claims

\* The Retryer of a Query that `retryer` refers to.
Current(qr) == qr.retryers[Len(qr.retryers)]

\* C1. When a second fetch() of a Query returned the promise of the fetch in
\* flight, the fetch function was invoked exactly once in total (no attempt
\* of the shared fetch has failed yet).
C1_SharedFetchInvokesOnce ==
  \A q \in QIds :
    ( /\ qs[q].created
      /\ qs[q].joined
      /\ qs[q].retryers # <<>>
      /\ Current(qs[q]).phase = "attempt"
      /\ Current(qs[q]).failureCount = 0 )
    => Current(qs[q]).fnCalls = 1

\* A second fetch() joined the first attempt of a fetch in flight.
C1_Joined ==
  \E q \in QIds :
    /\ qs[q].created
    /\ qs[q].joined
    /\ qs[q].retryers # <<>>
    /\ Current(qs[q]).phase = "attempt"
    /\ Current(qs[q]).failureCount = 0

\* C2. A Retryer with the integer retry policy N whose unit of work fails on
\* every attempt, and which the environment never forced to pause, has
\* invoked the unit of work exactly N + 1 times when its promise is rejected.
C2_InvokedRetryPlusOne ==
  ( /\ rt.settled = "rejected"
    /\ rt.reason = FnError
    /\ ~rt.isRetryCancelled
    /\ rtLog.pause = 0 )
  => rt.fnCalls = rt.retry + 1

\* C3 as stated. An attempt of the unit of work starts only while the online
\* signal reports true, and failureCount does not change while the Retryer
\* is paused.
C3_NoAttemptWhileOffline ==
  [][ /\ (rt'.fnCalls > rt.fnCalls => online')
      /\ (rt.isPaused => rt'.failureCount = rt.failureCount) ]_vars

\* C3, amended. After the first, an attempt of the unit of work starts only
\* when the delay ends with the environment focused and online, or when
\* proceed() ends a pause (onContinue runs), whatever the online signal
\* reports then; failureCount does not change while the Retryer is paused.
C3_AttemptOnlyWhenOnlineOrProceed ==
  [][ /\ (rt'.fnCalls > rt.fnCalls =>
            (focused /\ online) \/ rtLog'.continue > rtLog.continue)
      /\ (rt.isPaused => rt'.failureCount = rt.failureCount) ]_vars

\* A Retryer that paused after a failed attempt makes its next attempt, the
\* online signal reporting false.
C3_RetriedWhileOffline ==
  /\ ~online
  /\ rtLog.pause > 0
  /\ rtLog.continue > 0
  /\ rt.phase = "attempt"
  /\ rt.failureCount > 0

\* Stale by staleTime, in the claim's words: invalidated, no successful data,
\* or at least staleTime ms since dataUpdatedAt.
StaleBy(qr, staleTime) ==
  \/ qr.state.isInvalidated
  \/ qr.state.dataUpdatedAt = 0
  \/ now - qr.state.dataUpdatedAt >= (IF staleTime = NoOpt THEN 0 ELSE staleTime)

\* C4. A fetchQuery call with staleTime S for a Query that is registered and
\* not stale by S leaves the Query and the cache as they are (no Retryer is
\* created, so the fetch function is not invoked) and resolves with the
\* cached data; so the call invokes the fetch function only if the Query is
\* stale by S.
C4_FetchQueryOnlyWhenStale ==
  [][ ( /\ last'.op = "fetchQuery"
        /\ last'.q \in Range(queries)
        /\ ~StaleBy(qs[last'.q], last'.arg) )
      => ( /\ qs' = qs
           /\ queries' = queries
           /\ queriesMap' = queriesMap
           /\ last'.result = qs[last'.q].state.data ) ]_vars

\* A fetchQuery call with a staleTime found data fresher than that and
\* resolved with it.
C4_ServedFromCache ==
  /\ last.op = "fetchQuery"
  /\ last.arg = 1
  /\ last.result \in DataValues
  /\ qs[last.q].state.data = last.result
  /\ now - qs[last.q].state.dataUpdatedAt < 1

\* C5. The QueryCache holds at most one Query per queryHash, and its hash
\* map and its ordered list contain exactly the same Queries.
C5_OneQueryPerHash ==
  /\ \A i, j \in 1..Len(queries) :
       i # j => /\ queries[i] # queries[j]
                /\ qs[queries[i]].queryHash # qs[queries[j]].queryHash
  /\ \A q \in Range(queries) : queriesMap[qs[q].queryHash] = q
  /\ \A h \in Hashes :
       queriesMap[h] # NoQuery =>
         queriesMap[h] \in Range(queries) /\ qs[queriesMap[h]].queryHash = h

\* add() was called with a Query whose hash another registered Query owns.
C5_AddRefused ==
  /\ last.op = "add"
  /\ last.q \notin Range(queries)
  /\ queriesMap[qs[last.q].queryHash] # NoQuery
  /\ queriesMap[qs[last.q].queryHash] # last.q

\* C6. When the fetch of a Query with cacheTime 0 and no observers settles
\* with the data or with the error of the fetch function, the Query is not
\* registered in the QueryCache after that step.
C6_RemovedWhenFetchSettles ==
  [][ ( /\ last'.op = "settle"
        /\ qs[last'.q].cacheTime = 0
        /\ qs[last'.q].observers = <<>> )
      => ( /\ last'.q \notin Range(queries')
           /\ \A h \in Hashes : queriesMap'[h] # last'.q ) ]_vars

\* The fetch of a Query with cacheTime 0 and no observers has just settled.
C6_SettledUnobserved ==
  /\ last.op = "settle"
  /\ last.arg = 0
  /\ last.result = 0
  /\ last.q \notin Range(queries)

\* C7. A step that is no explicit remove or clear call takes a Query out of
\* the cache only if the Query has no observers and a finite cacheTime.
C7_AutoRemovalOnlyFiniteUnobserved ==
  [][ \A q \in QIds :
        ( /\ q \in Range(queries)
          /\ q \notin Range(queries')
          /\ last'.op # "remove" )
        => ( /\ qs[q].cacheTime # Infinity
             /\ \A o \in ObsIds : obsQuery'[o] # q ) ]_vars

\* C8. A Query has at most one unresolved Retryer.
C8_AtMostOneUnresolvedRetryer ==
  \A q \in QIds :
    Cardinality({i \in 1..Len(qs[q].retryers) : ~qs[q].retryers[i].isResolved}) <= 1

\* C9. cancelQueries() without options leaves every Query whose fetch was in
\* flight not fetching, with the status, data and error it had when that
\* fetch started.
C9_CancelRestoresPrevious ==
  [][ last'.op = "cancelQueries" =>
        \A q \in Range(queries) \cap Range(queries') :
          ( /\ qs[q].state.isFetching
            /\ qs[q].retryers # <<>>
            /\ ~Current(qs[q]).isResolved )
          => ( /\ ~qs'[q].state.isFetching
               /\ Snapshot(qs'[q].state) = qs[q].before ) ]_vars

\* C10 (the Mutation). mutationCache.config.onError and the logger were
\* called once per rejection of the Mutation that is not a cancellation, and
\* not for a cancellation.
C10_ReportsEqualFailures ==
  /\ mu.onErrorCalls = mu.failures
  /\ mu.loggerErrors = mu.failures

\* C11. A Mutation restored in 'loading' status and resumed, none of whose
\* attempts has failed, has invoked its mutation function at most once, and
\* exactly once when it has settled with 'success'.
C11_ResumedInvokesOnce ==
  ( /\ mu.chains # <<>>
    /\ mu.chains[1].restored
    /\ mu.state.failureCount = 0 )
  => ( /\ mu.fnCalls <= 1
       /\ (mu.state.status = "success" => mu.fnCalls = 1) )

\* Two resume triggers reached a restored Mutation before it settled, and
\* each of them has started a Retryer.
C11_ResumedTwice ==
  /\ Len(mu.chains) = 2
  /\ mu.chains[1].restored /\ mu.chains[2].restored
  /\ Len(mu.retryers) = 2
  /\ mu.retryers[1].phase = "attempt" /\ mu.retryers[2].phase = "attempt"

\* C12. An execute() that finds the status 'loading' builds a chain that
\* does not wait for onMutate and leaves the context as it is; no reaction
\* of such a chain invokes onMutate or changes the stored context.
C12_RestoredSkipsOnMutate ==
  [][ /\ ( /\ Len(mu'.chains) > Len(mu.chains)
           /\ mu.state.status = "loading" )
         => ( /\ mu'.chains[Len(mu'.chains)].pos # "onMutate"
              /\ mu'.state.context = mu.state.context )
      /\ \A c \in 1..Len(mu.chains) :
           ( /\ mu.chains[c].restored
             /\ mu'.chains[c] # mu.chains[c] )
           => ( /\ mu'.state.context = mu.state.context
                /\ \A k \in 1..Len(mu'.chains[c].log) : mu'.chains[c].log[k] # "onMutate" )
    ]_vars

\* A restored Mutation has run up to its last reaction, its context the
\* stored one.
C12_RestoredSettled ==
  /\ mu.chains # <<>>
  /\ mu.chains[1].restored
  /\ mu.chains[1].pos = "dispatch"
  /\ mu.state.context = StoredContext

\* The place of a callback in the order of C13.
CallbackRank(name) ==
  CASE name = "onMutate" -> 0
    [] name = "fn" -> 1
    [] name = "cache.onError" -> 2
    [] name \in {"onSuccess", "onError"} -> 3
    [] OTHER -> 4

\* A chain's callbacks so far are in order: onMutate first (fresh start
\* only), then the mutation function, then onSuccess or onError once, then
\* onSettled once.
CallbacksInOrder(ch) ==
  /\ \A j, k \in 1..Len(ch.log) :
       j < k => /\ CallbackRank(ch.log[j]) <= CallbackRank(ch.log[k])
                /\ CallbackRank(ch.log[j]) \in {0, 3, 4} =>
                     CallbackRank(ch.log[j]) < CallbackRank(ch.log[k])
  /\ \A k \in 1..Len(ch.log) :
       /\ ch.log[k] = "onMutate" => ~ch.restored /\ k = 1
       /\ ch.log[k] \in {"onSuccess", "onError"} =>
            \E j \in 1..(k - 1) : ch.log[j] = "fn"
       /\ ch.log[k] = "onSettled" =>
            k > 1 /\ ch.log[k - 1] \in {"onSuccess", "onError"}
  /\ (~ch.restored /\ Len(ch.log) > 0) => ch.log[1] = "onMutate"

C14_PrefetchSwallowsFetchRejects ==
  /\ (last.op \in {"settle", "fetchQuery"} /\ last.promise.status # "pending")
       => prefetchQuery(last.promise) = Resolved(Undefined)
  /\ (last.op = "settle" /\ last.promise.status = "rejected")
       => ( /\ last.promise = Rejected(FnError)
            /\ qs[last.q].state.status = "error"
            /\ qs[last.q].state.error = last.promise.reason )

\* A fetch has just failed with the error of the fetch function: fetchQuery's
\* promise is rejected, prefetchQuery's is not.
C14_FetchFailed ==
  /\ last.op = "settle"
  /\ last.promise.status = "rejected"
  /\ prefetchQuery(last.promise).status = "resolved"
  /\ qs[last.q].state.status = "error"

\* C15. A fetch that a fetchQuery call without a retry option starts makes
\* no retries: the Retryer it creates has the retry policy `false`.
C15_FetchQueryNeverRetries ==
  [][ ( /\ last'.op = "fetchQuery"
        /\ last'.q # NoQuery
        /\ last'.result = FetchPromise
        /\ ~qs'[last'.q].joined )
      => Current(qs'[last'.q]).retry = 0 ]_vars

\* fetchQuery without a retry option has started a fetch of a Query that
\* was created before, and the Retryer is to retry.
C15_FetchQueryRetries ==
  /\ last.op = "fetchQuery"
  /\ last.q # NoQuery
  /\ last.result = FetchPromise
  /\ ~qs[last.q].joined
  /\ Current(qs[last.q]).phase = "attempt"
  /\ Current(qs[last.q]).retry = DefaultRetry

\* C16. A fetch that Query.fetch(newOptions) starts with newOptions that
\* carry a fetch function (those of fetchQuery) runs that fetch function:
\* its Retryer is not one whose attempts reject with 'Missing queryFn'.
C16_FetchRunsNewOptions ==
  [][ ( /\ last'.op = "fetchQuery"
        /\ last'.q # NoQuery
        /\ last'.result = FetchPromise
        /\ ~qs'[last'.q].joined )
      => Current(qs'[last'.q]).hasFn ]_vars

\* fetch(newOptions) with a fetch function in newOptions has started a fetch
\* that runs without a fetch function.
C16_FetchWithoutFn ==
  /\ last.op = "fetchQuery"
  /\ last.q # NoQuery
  /\ last.result = FetchPromise
  /\ ~qs[last.q].joined
  /\ Current(qs[last.q]).phase = "attempt"
  /\ ~Current(qs[last.q]).hasFn

\* C17. When the window reports focus while the onlineManager is online, a
\* paused Retryer is continued: it is not paused after that step.
C17_ContinuedWhenFocusedAndOnline ==
  [][ ( /\ last' # last
        /\ last'.op = "window"
        /\ last'.arg = 1
        /\ online'
        /\ rt.phase = "paused" )
      => rt'.phase # "paused" ]_vars

\* The window has reported focus, the onlineManager is online, and the
\* Retryer is still paused.
C17_StillPaused ==
  /\ last.op = "window"
  /\ last.arg = 1
  /\ online
  /\ ~focused
  /\ rt.phase = "paused"
  /\ rt.isPaused

\* C18. No listener is invoked inside notifyManager.batch, that is inside
\* the batch of the state write that caused the notification, and one
\* synchronous batch invokes the listener at most once.
C18_ListenersDeferredOncePerBatch ==
  /\ \A i \in 1..Len(ob.calls) : ob.calls[i].depth = 0
  /\ Len(ob.calls) <= 1

\* invalidateQueries() has invoked the listener twice, both times inside
\* its batch, with the results of the two state writes.
C18_InvokedTwiceInBatch ==
  /\ Len(ob.calls) = 2
  /\ ob.calls[1].depth > 0
  /\ ob.calls[2].depth > 0
  /\ ob.calls[1].result # ob.calls[2].result
  /\ ob.state.isInvalidated
  /\ ob.state.isFetching

\* Whether the step notified the listener: it ran, or its call was scheduled.
Notified(o, p) == p.calls # <<>> \/ Len(p.microtasks) > Len(o.microtasks)

\* Whether the results of two states differ under the notification filter.
ChangedUnderFilter(o, p) ==
  LET prev == getNewResult(o)
      new == getNewResult(p)
  IN /\ prev # new
     /\ (o.filtered => \E key \in o.props : prev[key] # new[key])

\* C19. After a step that changed the Query's state, the observer's
\* currentResult is the result derived from the new state and the options,
\* and the listener was notified if that result changed under the filter.
C19_ResultFollowsState ==
  [][ ob'.state # ob.state =>
        ( /\ ob'.currentResult = getNewResult(ob')
          /\ (ChangedUnderFilter(ob, ob') => Notified(ob, ob')) ) ]_vars

\* The Query's data changed and getCurrentResult() of an observer made by
\* createQueryObserver is still undefined.
C19_ResultNeverAssigned ==
  /\ ob.factory = "create"
  /\ ob.state.dataUpdateCount > 1
  /\ ~ob.currentResult.defined
  /\ ob.calls = <<>>

\* Whether the step started a fetch of Query q.
StartsFetch(q) ==
  /\ qs'[q].created
  /\ qs'[q].state.isFetching
  /\ ~(qs[q].created /\ qs[q].state.isFetching)

\* Whether Query q has observers and all of them are disabled.
OnlyDisabledObservers(q) ==
  /\ qs'[q].observers # <<>>
  /\ \A i \in 1..Len(qs'[q].observers) : ~obsOptions'[qs'[q].observers[i]].enabled

\* C20. A step that starts a fetch of a Query whose observers are all
\* disabled is an explicit refetch(), refetchQueries() without the active
\* filter, or fetchQuery(): no subscription, setOptions, focus or online
\* signal, refetch interval, invalidateQueries() or resetQueries() does.
C20_DisabledObserverNeverFetches ==
  [][ \A q \in QIds :
        (StartsFetch(q) /\ OnlyDisabledObservers(q))
        => last'.op \in {"refetch", "refetchQueries", "fetchQuery"} ]_vars

\* A disabled observer with a refetch interval in its options is subscribed
\* to a Query with stale data, no timer is set, and nothing is being fetched.
C20_DisabledIdle ==
  \E o \in ObsIds :
    /\ obsQuery[o] # NoQuery
    /\ ~obsOptions[o].enabled
    /\ obsOptions[o].refetchInterval
    /\ ~obsOptions[o].intervalId
    /\ ~qs[obsQuery[o]].state.isFetching
    /\ qs[obsQuery[o]].state.isInvalidated
    /\ isStaleByTime(qs[obsQuery[o]], ObserverOptions.staleTime)

\* Whether a fetch of the Query is under way: its current Retryer has not
\* settled.
FetchUnderWay(qr) == qr.retryers # <<>> /\ ~Current(qr).isResolved

\* Whether Query q has an observer that is not disabled, after the step.
ActiveAfter(q) ==
  \E i \in 1..Len(qs'[q].observers) : obsOptions'[qs'[q].observers[i]].enabled

\* C21. A call of invalidateQueries() leaves every Query of the cache
\* invalidated; a fetch of every Query with an enabled observer is under way
\* after it, and a Query without one is only marked.
C21_InvalidateFetchesActive ==
  [][ last'.op = "invalidateQueries" =>
        \A q \in Range(queries') :
          /\ qs'[q].state.isInvalidated
          /\ ActiveAfter(q) => FetchUnderWay(qs'[q])
          /\ ~ActiveAfter(q) => qs'[q] = [qs[q] EXCEPT !.state.isInvalidated = TRUE] ]_vars

\* invalidateQueries() has returned, and a Query with an enabled observer is
\* invalidated with no fetch under way: its Retryer was cancelled silently,
\* isFetching stayed true, and fetch() returned the settled promise.
C21_ActiveNotFetched ==
  /\ last.op = "invalidateQueries"
  /\ \E q \in Range(queries) :
       /\ isActive(World, q)
       /\ qs[q].state.isInvalidated
       /\ qs[q].state.isFetching
       /\ ~FetchUnderWay(qs[q])

\* C22. resetQueries() puts every Query of the cache back into the state it
\* was created with before it refetches: when it returns, a Query without an
\* enabled observer is in that state, and a Query with one is in that state
\* with the new fetch begun; no error is left in either.
C22_ResetRestoresInitialState ==
  [][ last'.op = "resetQueries" =>
        /\ \A q \in Range(queries) :
             ForEach(queryReset, World, queries).qs[q].state = qs[q].initialState
        /\ \A q \in Range(queries') :
             qs'[q].state =
               IF ActiveAfter(q)
                 THEN reducer(qs'[q].initialState, Ev("fetch", Undefined, NoError))
                 ELSE qs'[q].initialState ]_vars

\* resetQueries() has returned; a Query was not in its initial state when it
\* was called, and a Query created with initial data and without an enabled
\* observer has that data again with status 'success'.
C22_ResetToInitialData ==
  /\ last.op = "resetQueries"
  /\ last.arg > 0
  /\ \E q \in Range(queries) :
       /\ ~isActive(World, q)
       /\ qs[q].initialState.status = "success"
       /\ qs[q].state = qs[q].initialState

\* The staleTime values isStaleByTime is asked about.
AskedStaleTimes == {NoOpt, 0, 1, MaxTime, Infinity}

\* Whether at least staleTime ms have passed since the data was updated.
Elapsed(qr, staleTime) ==
  /\ staleTime # Infinity
  /\ now - qr.state.dataUpdatedAt >= (IF staleTime = NoOpt THEN 0 ELSE staleTime)

MutationSettled == mu.state.status \in {"success", "error"}

\* C24. A Mutation that has settled and has no observers is not in the list
\* of the MutationCache.
C24_SettledUnobservedRemoved ==
  (MutationSettled /\ mu.observers = 0) => ~mu.listed

\* The Mutation has settled with success, every reaction of its chain has
\* run, it has no observers, and the MutationCache still lists it.
C24_SettledStillListed ==
  /\ mu.state.status = "success"
  /\ \A c \in MutChains : mu.chains[c].pos = "done"
  /\ mu.observers = 0
  /\ mu.listed

\* C25: under every interleaving of the unit of work completing, cancel,
\* cancelRetry and proceed, a Retryer invokes onSuccess and onError at most
\* once in total, and its promise is settled with that same outcome: resolved
\* exactly when onSuccess ran, rejected exactly when onError ran.
C25_SettlesOnce ==
  /\ rtLog.success + rtLog.error <= 1
  /\ rtLog.success = 1 <=> rt.settled = "resolved"
  /\ rtLog.error = 1 <=> rt.settled = "rejected"

\* A Retryer cancelled during its first attempt, whose unit of work has
\* completed after the cancellation.
C25_CancelledAttemptCompleted ==
  /\ rt.settled = "rejected"
  /\ isCancelledError(rt.reason)
  /\ rt.failureCount = 0
  /\ rt.phase = "stopped"
  /\ rtLog.error = 1

\* C26: in every reachable state a Query whose state says isFetching has a
\* current Retryer that is not resolved, so that fetch() after a cancellation
\* starts a new attempt and never hands out a promise that has settled.
C26_FetchingOnlyWhileUnresolved ==
  \A q \in Created : qs[q].state.isFetching => FetchUnderWay(qs[q])

\* fetchQuery has just returned the promise of a fetch, and the Query has no
\* attempt pending: it was cancelled silently, state.isFetching stayed true,
\* and fetch() returned the promise of the cancelled Retryer.
C26_ReturnedSettledPromise ==
  /\ last.op = "fetchQuery"
  /\ last.result = FetchPromise
  /\ last.q \in Created
  /\ qs[last.q].state.isFetching
  /\ qs[last.q].retryers # <<>>
  /\ Current(qs[last.q]).isResolved

\* C27: when the unit of work of a Retryer that was cancelled (silently or
\* with revert) or superseded by a fetch with cancelRefetch completes, with a
\* result or a failure, the Query's data, error and status stay as they are
\* and the Retryer does not call the query function again.
C27_LateOutcomeIgnored ==
  [][ last'.op = "late" =>
        /\ last'.arg = 0
        /\ last'.q \in Created' =>
             /\ qs'[last'.q].state.data = qs[last'.q].state.data
             /\ qs'[last'.q].state.error = qs[last'.q].state.error
             /\ qs'[last'.q].state.status = qs[last'.q].state.status ]_vars

\* The unit of work of a superseded Retryer has completed while the fetch
\* that replaced it is under way on a Query with data.
C27_SupersededAttemptCompleted ==
  /\ last.op = "late"
  /\ last.q \in Created
  /\ qs[last.q].state.dataUpdatedAt # 0
  /\ qs[last.q].state.isFetching
  /\ FetchUnderWay(qs[last.q])

\* C28: in every reachable state a Query whose state says isPaused is
\* fetching, and a Mutation whose state says isPaused has status 'loading':
\* no 'pause' is dispatched after the 'success' or 'error' that ended the
\* fetch or the mutation.
C28_PausedOnlyWhileRunning ==
  /\ \A q \in Created : qs[q].state.isPaused => qs[q].state.isFetching
  /\ mu.state.isPaused => mu.state.status = "loading"

\* A Query whose fetch was cancelled while its Retryer slept: the 'error' of
\* the cancellation ended the fetch, and the Retryer paused afterwards.
C28_PausedAfterCancel ==
  \E q \in Created :
    /\ qs[q].state.isPaused
    /\ ~qs[q].state.isFetching
    /\ qs[q].retryers # <<>>
    /\ Current(qs[q]).settled = "rejected"
    /\ isCancelledError(Current(qs[q]).reason)
    /\ Current(qs[q]).phase = "paused"

\* C29: the callbacks handed to notifyManager.schedule while a batch is open
\* are invoked when the flush of the outermost batch runs: each of them once,
\* outside every batch, in the order they were scheduled.
C29_QueuedCallbacksInvokedInOrder ==
  [][ ( /\ ob.microtasks # <<>>
        /\ Head(ob.microtasks).kind = "flush"
        /\ ob'.microtasks = Tail(ob.microtasks) )
      => /\ Len(ob'.calls) = Len(Head(ob.microtasks).queued)
         /\ \A i \in 1..Len(ob'.calls) :
              /\ ob'.calls[i].result = Head(ob.microtasks).queued[i]
              /\ ob'.calls[i].depth = 0 ]_vars

\* The outermost batch has closed with callbacks queued: the microtask of
\* flush() is scheduled, and `queue` is the new empty array it will iterate.
C29_FlushScheduledQueueEmptied ==
  /\ ob.batched
  /\ ob.transactions = 0
  /\ ob.microtasks # <<>>
  /\ Head(ob.microtasks).kind = "flush"
  /\ Head(ob.microtasks).queued # <<>>
  /\ ob.queue = <<>>

\* Whether the Query is one C30 speaks of: no observers, not fetching, and a
\* cacheTime that is finite and not zero.
Collectable(qr) ==
  /\ qr.observers = <<>>
  /\ ~qr.state.isFetching
  /\ isValidTimeout(qr.cacheTime)
  /\ qr.cacheTime # 0

\* C30: every Query of the cache that has no observers, is not fetching and
\* has a finite non-zero cacheTime has a pending garbage-collection timer,
\* which removes it unless an observer attaches or a fetch starts.
C30_UnobservedHasGcTimer ==
  \A q \in Range(queries) : Collectable(qs[q]) => qs[q].gcTimeout # NoTimer

\* A fetched Query stays in the cache with no observers, no fetch and no
\* timer: its timer ran out while it was fetching, and nothing set another.
C30_FetchedWithoutTimer ==
  \E q \in Range(queries) :
    /\ Collectable(qs[q])
    /\ qs[q].gcTimeout = NoTimer
    /\ qs[q].state.status = "success"
    /\ Live(qs[q].retryers) = <<>>

\* C31: in the step that settles the promise execute() returned, the
\* Mutation's status is 'success' if the promise is resolved and 'error' if
\* it is rejected, whatever the mutation function and the callbacks did.
C31_SettledMatchesStatus ==
  [][ \A c \in MutChains :
        ( /\ mu.chains[c].promise = "pending"
          /\ mu'.chains[c].promise # "pending" )
        => mu'.state.status = IF mu'.chains[c].promise = "resolved"
                                THEN "success" ELSE "error" ]_vars

\* options.onError (or the onSettled after it) threw: the promise of execute()
\* is rejected and the Mutation is still 'loading'.
C31_RejectedWhileLoading ==
  \E c \in MutChains :
    /\ mu.chains[c].promise = "rejected"
    /\ mu.state.status = "loading"
    /\ \A d \in MutChains : mu.chains[d].pos = "done"

\* C32: where no loss of focus or of connectivity is ever reported, the
\* retry delay of a Retryer that is neither settled nor told to stop retrying
\* ends with the next attempt, never with a pause.
C32_RetriesWithoutPause ==
  [][ ( /\ rt.phase = "sleep"
        /\ rt'.phase # "sleep"
        /\ ~rt.isResolved
        /\ ~rt.isRetryCancelled )
      => ( /\ rt'.phase = "attempt"
           /\ ~rt'.isPaused
           /\ rtLog'.pause = 0 ) ]_vars

\* Nothing was reported to the managers, one attempt has failed, and the
\* Retryer is paused instead of running the next attempt.
C32_PausedUnprompted ==
  /\ focused = InitFocused
  /\ online = InitOnline
  /\ rt.phase = "paused"
  /\ rt.failureCount = 1
  /\ rt.fnCalls = FnCallsPerRun
  /\ ~rt.isResolved
  /\ rtLog.pause = 1

\* Whether the step takes the last observer off Query q while a fetch with a
\* transport that cannot be cancelled is under way.
LastObserverDetaches(q) ==
  /\ qs[q].observers # <<>>
  /\ FetchUnderWay(qs[q])
  /\ ~Current(qs[q]).isTransportCancelable
  /\ (q \in Created' => qs'[q].observers = <<>>)

\* The fetch of q goes on after the step, with its retries cancelled and no
\* new call of the query function.
GoesOnWithoutRetry(q) ==
  /\ q \in Created'
  /\ FetchUnderWay(qs'[q])
  /\ Current(qs'[q]).isRetryCancelled
  /\ Current(qs'[q]).fnCalls = Current(qs[q]).fnCalls
  /\ Current(qs'[q]).phase = Current(qs[q]).phase

\* No Retryer whose retries are cancelled starts an attempt in the step.
NoAttemptOnceCancelled ==
  \A q \in Created' : \A j \in 1..Len(qs'[q].retryers) :
    LET r == qs'[q].retryers[j]
    IN (r.isRetryCancelled /\ ~r.isResolved /\ r.phase = "attempt")
       => \E i \in 1..Len(qs[q].retryers) :
            /\ qs[q].retryers[i].phase = "attempt"
            /\ ~qs[q].retryers[i].isResolved
            /\ qs[q].retryers[i].fnCalls = r.fnCalls

\* The data of an attempt that succeeds is written to the Query's state.
SuccessIsWritten ==
  (last'.op = "settle" /\ last'.promise.status = "resolved" /\ last'.q \in Created')
  => /\ qs'[last'.q].state.data = last'.promise.value
     /\ qs'[last'.q].state.status = "success"
     /\ ~qs'[last'.q].state.isFetching

C34_SilentCancelKeepsState ==
  [][ last'.op = "cancelSilently" =>
        \A q \in Created : q \in Created' => qs'[q].state = qs[q].state ]_vars

\* A silent cancellation has changed the state of a Query: its Retryer was
\* paused, and ending the pause dispatched 'continue'.
C34_SilentCancelDispatched ==
  /\ last.op = "cancelSilently"
  /\ last.arg > 0
  /\ \E q \in Range(queries) :
       /\ qs[q].state.isFetching
       /\ ~qs[q].state.isPaused
       /\ qs[q].state.fetchFailureCount > 0
       /\ ~FetchUnderWay(qs[q])

\* C35: every Query with an attached observer is registered in the QueryCache
\* under its queryHash, also after removeQueries() or clear().
C35_ObservedIsRegistered ==
  \A q \in Created :
    qs[q].observers # <<>> =>
      /\ q \in Range(queries)
      /\ queriesMap[qs[q].queryHash] = q

\* clear() has removed a Query that a subscribed observer is attached to: the
\* observer's currentQuery is no Query of the cache.
C35_ObservedButRemoved ==
  /\ last.op = "remove"
  /\ \E o \in ObsIds :
       /\ obsQuery[o] # NoQuery
       /\ obsQuery[o] \notin Range(queries)
       /\ queriesMap[qs[obsQuery[o]].queryHash] # obsQuery[o]
       /\ \E i \in 1..Len(qs[obsQuery[o]].observers) : qs[obsQuery[o]].observers[i] = o

\* Whether the step takes the last observer off Query q while a fetch with a
\* cancelable transport is under way.
LastObserverDetachesCancelable(q) ==
  /\ qs[q].observers # <<>>
  /\ FetchUnderWay(qs[q])
  /\ Current(qs[q]).isTransportCancelable
  /\ q \in Created'
  /\ qs'[q].observers = <<>>

\* C36: when the last observer detaches from a fetching Query whose transport
\* is cancelable, the cancellation is no failure of the Query: its status and
\* error are those the fetch found when it started, and errorUpdateCount is
\* unchanged.
C36_DetachCancelIsNoFailure ==
  [][ \A q \in Created :
        LastObserverDetachesCancelable(q) =>
          /\ qs'[q].state.status = qs[q].before.status
          /\ qs'[q].state.error = qs[q].before.error
          /\ qs'[q].state.errorUpdateCount = qs[q].state.errorUpdateCount ]_vars

\* An unobserved Query of the cache has status 'error' with a CancelledError
\* as its error: the cancel() of removeObserver was recorded as a failure.
C36_CancelRecordedAsError ==
  \E q \in Range(queries) :
    /\ qs[q].observers = <<>>
    /\ qs[q].state.status = "error"
    /\ qs[q].state.error = CancelledError(FALSE, FALSE)
    /\ qs[q].state.errorUpdateCount = 1
    /\ ~qs[q].state.isFetching

\* C37: with nested notifyManager.batch calls the queue is flushed only by
\* the outermost batch: every flush that took callbacks off the queue was
\* called with the counter of open batches back at zero, and between
\* handlers the counter is zero and the queue is empty.
C37_FlushOnlyAtOutermost ==
  /\ ob.transactions = 0
  /\ ob.queue = <<>>
  /\ \A i \in 1..Len(ob.microtasks) :
       ob.microtasks[i].kind = "flush" => ob.microtasks[i].depth = 0

\* One flush is scheduled for two callbacks that were queued in nested
\* batches of one invalidateQueries() call.
C37_NestedBatchesOneFlush ==
  /\ ob.batched
  /\ ob.microtasks # <<>>
  /\ ob.microtasks[Len(ob.microtasks)].kind = "flush"
  /\ ob.microtasks[Len(ob.microtasks)].depth = 0
  /\ Len(ob.microtasks[Len(ob.microtasks)].queued) = 2
  /\ ob.state.isInvalidated
  /\ ob.state.isFetching

\* ---------------------------------------------------- SpecThrowingBatch

\* Batches in which the callback throws.
MaxThrows == 1

\* notifyManager.batch(callback) when callback throws: the statements after
\* callback() are not reached.
nmBatchThrows(o) == nmBatchBegin(o)

\* notifyManager.batch(callback) of the application; callback throws.
ObBatchThrows ==
  /\ ob.transactions < MaxThrows
  /\ ObApply(nmBatchThrows(Handler(ob)))

NextThrowingBatch ==
  \/ ObSetQueryData
  \/ ObRefetch
  \/ ObFetchSuccess
  \/ ObFetchError
  \/ ObInvalidateQueries
  \/ ObMicrotask
  \/ ObBatchThrows

SpecThrowingBatch == InitObserver /\ [][NextThrowingBatch]_vars

\* C38: every handler, a notifyManager.batch whose callback throws included,
\* leaves the open-batch counter `transactions` at the value it had before.
C38_BatchRestoresCounter == [][ob'.transactions = ob.transactions]_vars

\* A callback threw, and a notification scheduled after it sits in `queue`
\* with no flush scheduled for it.
C38_ScheduledNeverFlushed ==
  /\ ob.transactions > 0
  /\ ob.queue # <<>>
  /\ ob.microtasks = <<>>

\* ---------------------------------------------------------- SpecResume

\* Mutations of the MutationCache, and resumePausedMutations() calls.
MaxMutations == 2
MaxResumes == 2

\* Two Mutations of the cache: built and not started, or restored while paused.
InitResume ==
  /\ InitBesidesMutation
  /\ mu = NoMutation
  /\ tm = NoTimed
  /\ \E ms \in [1..MaxMutations ->
                  {mutationCacheBuild(1, TRUE),
                   [createMutation(NoOpt, TRUE, RestoredState(TRUE)) EXCEPT !.listed = TRUE]}] :
       mutationCache = [NoMutationCache EXCEPT !.mutations = ms]

McMutations == 1..Len(mutationCache.mutations)
McRetryers(k) == 1..Len(mutationCache.mutations[k].retryers)
McChains(k) == 1..Len(mutationCache.mutations[k].chains)

\* A step of Mutation k.
McApply(k, m) ==
  /\ mutationCache' = [mutationCache EXCEPT !.mutations[k] = m]
  /\ UNCHANGED <<now, follow, tm, mu, ob, envVars, rtVars, cacheVars>>

\* mutation.execute() of a Mutation that was built and not started
McExecute ==
  \E k \in McMutations :
    /\ mutationCache.mutations[k].chains = <<>>
    /\ mutationCache.mutations[k].state.status = "idle"
    /\ McApply(k, mutationExecute(mutationCache.mutations[k]))

\* options.onMutate has returned; it returns undefined here.
McOnMutate ==
  \E k \in McMutations : \E c \in McChains(k) :
    /\ mutationCache.mutations[k].chains[c].pos = "onMutate"
    /\ McApply(k, mutationOnMutate(mutationCache.mutations[k], c, Undefined))

McStart ==
  \E k \in McMutations : \E c \in McChains(k) :
    /\ mutationCache.mutations[k].chains[c].pos = "start"
    /\ McApply(k, executeMutation(mutationCache.mutations[k], c))

McAttemptResolve ==
  \E k \in McMutations : \E i \in McRetryers(k) :
    /\ mutationCache.mutations[k].retryers[i].phase = "attempt"
    /\ McApply(k, mutationApply(mutationCache.mutations[k], i,
                    RetryerAttemptResolve(mutationCache.mutations[k].retryers[i], MutData)))

McAttemptReject ==
  \E k \in McMutations : \E i \in McRetryers(k) :
    /\ mutationCache.mutations[k].retryers[i].phase = "attempt"
    /\ McApply(k, mutationApply(mutationCache.mutations[k], i,
                    RetryerAttemptReject(mutationCache.mutations[k].retryers[i], FnError)))

McSleepElapsed ==
  \E k \in McMutations : \E i \in McRetryers(k) :
    /\ mutationCache.mutations[k].retryers[i].phase = "sleep"
    /\ McApply(k, mutationApply(mutationCache.mutations[k], i,
                    RetryerSleepElapsed(mutationCache.mutations[k].retryers[i], focused, online)))

McReaction ==
  \E k \in McMutations : \E c \in McChains(k) :
    /\ mutationCache.mutations[k].chains[c].pos \in {"onSuccess", "onError", "onSettled", "dispatch"}
    /\ McApply(k, mutationReaction(mutationCache.mutations[k], c))

\* mutationCache.resumePausedMutations(), also as onFocus() and onOnline()
McResume ==
  /\ Len(mutationCache.resumes) < MaxResumes
  /\ pausedMutations(mutationCache) # <<>>
  /\ mutationCache' = resumePausedMutationsCall(mutationCache)
  /\ UNCHANGED <<now, follow, tm, mu, ob, envVars, rtVars, cacheVars>>

\* The next reaction of the chain of resumePausedMutations() call j.
McResumeReaction(j) ==
  /\ j <= Len(mutationCache.resumes)
  /\ ~mutationCache.resumes[j].done
  /\ resumeReady(mutationCache, j)
  /\ mutationCache' = resumeReaction(mutationCache, j)
  /\ UNCHANGED <<now, follow, tm, mu, ob, envVars, rtVars, cacheVars>>

McResumeReactions == \E j \in 1..MaxResumes : McResumeReaction(j)

NextResume ==
  \/ McExecute
  \/ McOnMutate
  \/ McStart
  \/ McAttemptResolve
  \/ McAttemptReject
  \/ McSleepElapsed
  \/ McReaction
  \/ McResume
  \/ McResumeReactions

SpecResume == InitResume /\ [][NextResume]_vars

\* The reactions of a promise chain run once they are ready.
SpecResumeFair == SpecResume /\ \A j \in 1..MaxResumes : WF_vars(McResumeReaction(j))

\* The promise the n-th continue() call of chain j returned has settled / was
\* rejected.
ReturnedSettled(j, n) ==
  PromiseSettled(mutationCache.mutations[mutationCache.resumes[j].returned[n].mutation],
                 mutationCache.resumes[j].returned[n])

ReturnedRejected(j, n) ==
  PromiseRejected(mutationCache.mutations[mutationCache.resumes[j].returned[n].mutation],
                  mutationCache.resumes[j].returned[n])

\* The continue() calls of every chain so far went through the paused
\* Mutations in the order of `mutations`, each after the promise of the call
\* before had settled.
OneAtATimeInOrder ==
  \A j \in 1..Len(mutationCache.resumes) :
    LET ch == mutationCache.resumes[j]
    IN /\ Len(ch.returned) <= Len(ch.paused)
       /\ \A n \in 1..Len(ch.returned) : ch.returned[n].mutation = ch.paused[n]
       /\ \A n \in 1..(Len(ch.paused) - 1) : ch.paused[n] < ch.paused[n + 1]
       /\ \A n \in 1..(Len(ch.returned) - 1) : ReturnedSettled(j, n)

\* Chain j has continued n Mutations, more are to come, and the promise of
\* the n-th was rejected.
RejectedBeforeNext(j, n) ==
  /\ j <= Len(mutationCache.resumes)
  /\ Len(mutationCache.resumes[j].returned) = n
  /\ n < Len(mutationCache.resumes[j].paused)
  /\ ReturnedRejected(j, n)

ContinuedBeyond(j, n) ==
  /\ j <= Len(mutationCache.resumes)
  /\ Len(mutationCache.resumes[j].returned) > n

\* C39: resumePausedMutations() continues the paused Mutations one at a time
\* in registration order: continue() of the next one is called only after the
\* promise of the one before has settled, and when that promise was rejected
\* the next one is continued all the same.
C39_ResumesOneAtATime ==
  /\ []OneAtATimeInOrder
  /\ \A j \in 1..MaxResumes : \A n \in 1..(MaxMutations - 1) :
       RejectedBeforeNext(j, n) ~> ContinuedBeyond(j, n)

\* A chain has continued its second Mutation after the promise of the first
\* was rejected.
C39_ContinuedAfterRejection ==
  \E j \in 1..Len(mutationCache.resumes) :
    /\ Len(mutationCache.resumes[j].returned) = 2
    /\ ReturnedRejected(j, 1)

\* ---------------------------------------------------------- SpecTimers

\* Date.now() at most, where timers are followed.
MaxClock == 3

\* The first observer has the default options and a listener that may
\* unsubscribe the listener of the second; the second has a staleTime and a
\* refetchInterval or not.
InitTimers ==
  /\ InitBesidesMutation
  /\ mu = NoMutation
  /\ mutationCache = NoMutationCache
  /\ \E unsubscribes \in {0, 2}, staleTime \in {NoOpt, 1}, refetchInterval \in {NoOpt, 1},
        enabled \in BOOLEAN :
       tm = Timed([o \in TmObs |->
                     IF o = 1
                       THEN TimedObserver(NoOpt, NoOpt, TRUE, unsubscribes)
                       ELSE TimedObserver(staleTime, refetchInterval, enabled, 0)])

TmApply(t) ==
  /\ t.state.dataUpdateCount <= MaxUpdates
  /\ t.state.errorUpdateCount <= MaxUpdates
  /\ tm' = t
  /\ UNCHANGED <<now, follow, mutationCache, mu, ob, envVars, rtVars, cacheVars>>

\* observer.subscribe(listener) of an observer without listeners
TmSubscribe ==
  \E o \in TmObs :
    /\ tm.obs[o].listeners = 0
    /\ TmApply(tmOnSubscribe(tm, o))

\* The observer's listener is unsubscribed.
TmUnsubscribe ==
  \E o \in TmObs :
    /\ tm.obs[o].listeners > 0
    /\ TmApply(tmDestroy(tm, o))

\* queryClient.setQueryData(key, data)
TmSetQueryData ==
  /\ ~tm.removed
  /\ TmApply(tmDispatch(tm, Ev("success", 1, NoError)))

\* The fetch succeeds or, with retry: false, fails.
TmFetchSuccess ==
  /\ tm.state.isFetching
  /\ TmApply(tmDispatch(tm, Ev("success", 1, NoError)))

TmFetchError ==
  /\ tm.state.isFetching
  /\ TmApply(tmDispatch(tm, Ev("error", Undefined, FnError)))

\* A stale timeout that is due fires.
TmStaleTimeout ==
  \E i \in 1..Len(tm.pending) :
    /\ tm.pending[i].kind = "stale"
    /\ tm.pending[i].due <= now
    /\ TmApply(tmStaleTimeoutFires(
                 [tm EXCEPT !.pending = SubSeq(@, 1, i - 1) \o SubSeq(@, i + 1, Len(@))],
                 tm.pending[i].owner))

\* The GC timeout fires when it is due.
TmGcTimeout ==
  \E i \in 1..Len(tm.pending) :
    /\ tm.pending[i].kind = "gc"
    /\ tm.pending[i].due <= now
    /\ TmApply(tmOptionalRemove(
                 [tm EXCEPT !.pending = SubSeq(@, 1, i - 1) \o SubSeq(@, i + 1, Len(@))]))

\* Time passes.
TmTick ==
  /\ now < MaxClock
  /\ now' = now + 1
  /\ UNCHANGED <<tm, follow, mutationCache, mu, ob, envVars, rtVars, cacheVars>>

NextTimers ==
  \/ TmSubscribe
  \/ TmUnsubscribe
  \/ TmSetQueryData
  \/ TmFetchSuccess
  \/ TmFetchError
  \/ TmStaleTimeout
  \/ TmGcTimeout
  \/ TmTick

SpecTimers == InitTimers /\ [][NextTimers]_vars

\* The pending timers of a kind and an owner (0: the Query).
PendingTimers(kind, owner) ==
  {i \in 1..Len(tm.pending) : tm.pending[i].kind = kind /\ tm.pending[i].owner = owner}

\* Query and observers have at most one pending timer of each kind.
AtMostOneTimerEach ==
  /\ Cardinality(PendingTimers("gc", 0)) <= 1
  /\ \A o \in TmObs :
       /\ Cardinality(PendingTimers("stale", o)) <= 1
       /\ Cardinality(PendingTimers("interval", o)) <= 1

\* C40: the Query has at most one pending GC timer, every QueryObserver at
\* most one pending stale timeout and one pending refetch interval, and an
\* observer without listeners has neither.
C40_TimersBounded ==
  /\ AtMostOneTimerEach
  /\ \A o \in TmObs :
       tm.obs[o].listeners = 0 =>
         PendingTimers("stale", o) = {} /\ PendingTimers("interval", o) = {}

\* An observer without listeners, which the Query does not hold, has a
\* refetch interval running.
C40_DestroyedObserverHasInterval ==
  \E o \in TmObs :
    /\ tm.obs[o].listeners = 0
    /\ \A i \in 1..Len(tm.observers) : tm.observers[i] # o
    /\ PendingTimers("interval", o) # {}

====
